---- MODULE Spec2Model ----
(***************************************************************************)
(* coin-monster: the order-book engine (modules/order_book.py), the stream *)
(* connector (modules/websocket.py) and the subscription lifecycle manager *)
(* (app.py), as state machines.                                            *)
(***************************************************************************)
EXTENDS Integers, Sequences, FiniteSets, TLC

(***************************************************************************)
(* Bounds of the model.                                                    *)
(***************************************************************************)
\* sequence numbers of depth messages are drawn from 0..MaxSeq
MaxSeq == 1
\* a depth message carries at most MaxUpdates update entries
MaxUpdates == 2
\* the max_levels argument the OrderBook is constructed with
InitLevels == 1
\* start requests accepted per instrument
MaxSubs == 2
\* stop requests in flight at a time
MaxStops == 2
\* connections a connector takes from the transport
MaxConns == 2
\* start requests accepted per instrument when there are several instruments
MaxStarts == 1
\* _round_up is called with n in -2..MaxN
MaxN == 5000
\* _ensure_capacity is called with max_levels in 0..MaxCap
MaxCap == 3
\* and with n_levels in 0..MaxL
MaxL == 12
\* _parse_data on its own is called with at most MaxParsed update entries
MaxParsed == 2
\* a record passed to insert has at most MaxAltered columns missing or bad
MaxAltered == 2
\* the clock is followed in ticks, TicksPerSecond to the second
TicksPerSecond == 4
\* _build_jwt is entered with the clock at 0..MaxClock ticks
MaxClock == 40
\* and the clock advances by 0..MaxAdvance ticks between its two readings
MaxAdvance == 2
\* messages that arrive on the connections of the connector under test
MaxArrive == 3
\* a message handed to a table handler has at most MaxEvents events
MaxEvents == 2

VARIABLES
    \* ---- OrderBook instance (modules/order_book.py) ----
    bids,               \* self.bids: array of <<price, quantity>> rows
    asks,               \* self.asks
    n_levels_bid,       \* self.n_levels_bid
    n_levels_ask,       \* self.n_levels_ask
    max_levels_bid,     \* self.max_levels_bid
    max_levels_ask,     \* self.max_levels_ask
    last_sequence_num,  \* self.last_sequence_num
    order_book_db,      \* OrderBook.order_book (class attribute): "None" or "sink"
    \* ---- what the last consume_message call did ----
    result,             \* "none", "dropped", "ok" or the exception it raised
    msg_seq             \* data['sequence_num'] of the last call

    ,
    \* ---- connector tasks (modules/websocket.py, Websocket.websocket) ----
    tasks               \* task id -> the task's connector and asyncio state

    ,
    \* ---- subscription lifecycle manager (app.py) ----
    websockets,         \* app.state.websockets: coin -> its entry (0: absent)
    created,            \* coin -> the number of entries created for it so far
    stops,              \* unsubscribe_coin calls suspended in cancel_coin_tasks
    resp                \* the response written by the last step, if any

    ,
    \* ---- a function of modules/order_book.py called on its own ----
    call                \* the function, its argument and what it returned

    ,
    \* ---- what a connector has sent (modules/websocket.py) ----
    wire,               \* per connection taken, the requests sent on it, in order
    built,              \* the number of _build_jwt calls made so far
    arrived,            \* the messages that arrived for the consumer, in order
    taken               \* how many of them "async for message" has handed over

    ,
    \* ---- the application with several instruments (app.py) ----
    books,              \* l2 task id -> the OrderBook of its connector
    lifespan            \* where the lifespan context manager stands

varsBook == <<bids, asks, n_levels_bid, n_levels_ask, max_levels_bid,
              max_levels_ask, last_sequence_num, order_book_db,
              result, msg_seq>>
varsConn == <<tasks>>
varsApp == <<websockets, created, stops, resp>>
varsCall == <<call>>
varsRecv == <<arrived, taken>>
varsWire == <<wire, built, varsRecv>>
varsLife == <<books, lifespan>>

(***************************************************************************)
(* Raw JSON values of a depth message.  Numbers arrive as text; a key can  *)
(* be absent and a value can be text that does not parse.                  *)
(***************************************************************************)
Absent == "<absent>"
Garbage == "abc"

\* np.float64 of a numeric text: "1" and "1.0" are one float
Float64(s) ==
    CASE s = "0"   -> 0
      [] s = "-1"  -> -1
      [] s = "1"   -> 1
      [] s = "1.0" -> 1
      [] s = "2"   -> 2
      [] s = "2.0" -> 2

IsNumeric(s) == s \in {"0", "-1", "1", "1.0", "2", "2.0"}

\* pd.Timestamp of a time text: the same instant has more than one text
Timestamp(s) ==
    CASE s = "T1"       -> 1
      [] s = "T1+00:00" -> 1
      [] s = "T2"       -> 2

IsTime(s) == s \in {"T1", "T1+00:00", "T2"}

\* data['sequence_num']: a JSON integer, a JSON value of another type, or no key
IntSeq(n) == [tag |-> "int", val |-> n]
StrSeq == [tag |-> "str", val |-> 0]
NoSeq == [tag |-> "absent", val |-> 0]

Max(a, b) == IF a >= b THEN a ELSE b

(***************************************************************************)
(* _round_up and _ensure_capacity                                          *)
(***************************************************************************)
RECURSIVE magnitude(_)
\* 10 ** math.floor(math.log10(n)), n > 0
magnitude(n) == IF n < 10 THEN 1 ELSE 10 * magnitude(n \div 10)

\* _round_up going to the next multiple also from a multiple
round_up_next(n) ==
    IF n <= 0 THEN 0
    ELSE LET m == magnitude(n)
         IN ((n \div m) + 1) * m

\* math.ceil(n / magnitude) * magnitude; the float division and the ceil are
\* exact for the n a row count can be (n < 2^53)
round_up(n) ==
    IF n <= 0 THEN 0
    ELSE LET m == magnitude(n)
         IN ((n + m - 1) \div m) * m

ZeroRow == <<0, 0>>

\* _ensure_capacity growing to _round_up(n_levels) without the doubling
ensure_capacity_no_double(arr, n_levels, max_levels) ==
    IF n_levels >= max_levels
    THEN LET new_max_levels == round_up(n_levels)
         IN <<[i \in 1..new_max_levels |->
                  IF i <= Len(arr) THEN arr[i] ELSE ZeroRow],
              new_max_levels>>
    ELSE <<arr, max_levels>>

\* _ensure_capacity growing on every call
ensure_capacity_always(arr, n_levels, max_levels) ==
    LET new_max_levels == Max(max_levels * 2, round_up(n_levels))
    IN <<[i \in 1..new_max_levels |->
             IF i <= Len(arr) THEN arr[i] ELSE ZeroRow],
         new_max_levels>>

\* returns <<array, max_levels>>
ensure_capacity(arr, n_levels, max_levels) ==
    IF n_levels >= max_levels
    THEN LET new_max_levels == Max(max_levels * 2, round_up(n_levels))
         IN <<[i \in 1..new_max_levels |->
                  IF i <= Len(arr) THEN arr[i] ELSE ZeroRow],
              new_max_levels>>
    ELSE <<arr, max_levels>>

(***************************************************************************)
(* OrderBook._parse_data                                                   *)
(***************************************************************************)
RECURSIVE flatten(_)
\* for e in data['events']: for u in e['updates']
flatten(events) ==
    IF events = <<>> THEN <<>>
    ELSE Head(events).updates \o flatten(Tail(events))

\* the dicts bids / asks of _parse_data: entries in insertion order, keyed by
\* the price_level value as received
RECURSIVE parse_loop(_, _, _)
parse_loop(us, b, a) ==
    IF us = <<>> THEN [exc |-> "none", bids |-> b, asks |-> a]
    ELSE
      LET u == Head(us) IN
      IF u.event_time = Absent THEN [exc |-> "KeyError", bids |-> b, asks |-> a]
      ELSE IF ~IsTime(u.event_time) THEN [exc |-> "ValueError", bids |-> b, asks |-> a]
      ELSE IF u.side = Absent \/ u.price_level = Absent
           THEN [exc |-> "KeyError", bids |-> b, asks |-> a]
      ELSE
        LET d == IF u.side = "bid" THEN b ELSE a
            t == Timestamp(u.event_time)
            hit == {i \in DOMAIN d : d[i].k = u.price_level}
            stores == hit = {} \/ t > d[CHOOSE i \in hit : TRUE].t
            e == [k |-> u.price_level, q |-> u.new_quantity, t |-> t]
            d2 == IF hit = {} THEN Append(d, e)
                  ELSE IF stores THEN [d EXCEPT ![CHOOSE i \in hit : TRUE] = e]
                  ELSE d
        IN IF stores /\ u.new_quantity = Absent
           THEN [exc |-> "KeyError", bids |-> b, asks |-> a]
           ELSE IF u.side = "bid" THEN parse_loop(Tail(us), d2, a)
                ELSE parse_loop(Tail(us), b, d2)

\* np.array(rows, dtype=np.float64)
to_rows(d) == [i \in DOMAIN d |-> <<Float64(d[i].k), Float64(d[i].q)>>]
convertible(d) == \A i \in DOMAIN d : IsNumeric(d[i].k) /\ IsNumeric(d[i].q)

parse_data(data) ==
    LET fail(x) == [exc |-> x, ts |-> 0, bids |-> <<>>, asks |-> <<>>] IN
    IF data.timestamp = Absent THEN fail("KeyError")
    ELSE IF ~IsTime(data.timestamp) THEN fail("ValueError")
    ELSE
      LET r == parse_loop(flatten(data.events), <<>>, <<>>) IN
      IF r.exc # "none" THEN fail(r.exc)
      ELSE IF ~convertible(r.bids) \/ ~convertible(r.asks) THEN fail("ValueError")
      ELSE [exc |-> "none", ts |-> Timestamp(data.timestamp),
            bids |-> to_rows(r.bids), asks |-> to_rows(r.asks)]

(***************************************************************************)
(* OrderBook._update_book, one side                                        *)
(***************************************************************************)
prices(rows) == {rows[i][1] : i \in DOMAIN rows}

keep_rows(rows, gone) == SelectSeq(rows, LAMBDA r : r[1] \notin gone)

\* merge_side with the mask "quantity >= 0" in place of "quantity > 0"
merge_side_keep_zero(arr, n_levels, deltas) ==
    LET to_upsert == SelectSeq(deltas, LAMBDA r : r[2] >= 0)
        to_delete == prices(SelectSeq(deltas, LAMBDA r : ~(r[2] >= 0)))
        current == SubSeq(arr, 1, n_levels)
        c1 == IF to_delete # {} THEN keep_rows(current, to_delete) ELSE current
    IN IF to_upsert # <<>>
       THEN keep_rows(c1, prices(to_upsert)) \o to_upsert
       ELSE c1

\* the side's rows after delete and upsert, before the sort
merge_side(arr, n_levels, deltas) ==
    LET to_upsert == SelectSeq(deltas, LAMBDA r : r[2] > 0)
        to_delete == prices(SelectSeq(deltas, LAMBDA r : ~(r[2] > 0)))
        current == SubSeq(arr, 1, n_levels)
        c1 == IF to_delete # {} THEN keep_rows(current, to_delete) ELSE current
    IN IF to_upsert # <<>>
       THEN keep_rows(c1, prices(to_upsert)) \o to_upsert
       ELSE c1

\* key order of np.argsort(-price) (bids) and np.argsort(price) (asks)
in_order(desc, p, q) == IF desc THEN p >= q ELSE p <= q

\* rows[np.argsort(key)]: the rows in key order; numpy's default sort is not
\* stable, so rows of equal price come out in either order
sort_side(rows, desc) ==
    {s \in {[i \in DOMAIN rows |-> rows[p[i]]] : p \in Permutations(DOMAIN rows)} :
        \A i \in DOMAIN s : \A j \in DOMAIN s :
            i < j => in_order(desc, s[i][1], s[j][1])}

\* the side after capacity update and the write of the prefix
store_side(arr, max_levels, current) ==
    LET cap == ensure_capacity(arr, Len(current), max_levels)
    IN [arr |-> [i \in DOMAIN cap[1] |->
                    IF i <= Len(current) THEN current[i] ELSE cap[1][i]],
        n |-> Len(current),
        max |-> cap[2]]

\* every side _update_book can leave
update_side(arr, n_levels, max_levels, deltas, desc) ==
    {store_side(arr, max_levels, c) : c \in sort_side(merge_side(arr, n_levels, deltas), desc)}

(***************************************************************************)
(* OrderBook.consume_message                                               *)
(***************************************************************************)
\* the gate with <= in place of <
stale_or_equal(seq, last) == seq <= last
\* the gate left out
stale_never(seq, last) == FALSE

\* the sequence gate: True when the message is dropped
stale(seq, last) == seq < last

\* what the order_book sink can do with a record: accept it or raise
SinkResults == {"ok", "IngressError"}

\* consume_message with a point between the two sides of _update_book at
\* which the call can be left, the bids stored and the asks not
consumed_between_sides(book, db, data) ==
    IF data.sequence_num.tag # "int"
    THEN {[book |-> book,
           result |-> IF data.sequence_num.tag = "absent" THEN "KeyError" ELSE "TypeError"]}
    ELSE IF stale(data.sequence_num.val, book.last_sequence_num)
    THEN {[book |-> book, result |-> "dropped"]}
    ELSE
      LET gated == [book EXCEPT !.last_sequence_num = data.sequence_num.val]
          p == parse_data(data)
      IN  IF p.exc # "none" THEN {[book |-> gated, result |-> p.exc]}
          ELSE {[book |-> [gated EXCEPT !.bids = nb.arr, !.n_levels_bid = nb.n,
                                        !.max_levels_bid = nb.max],
                 result |-> "CancelledError"] :
                   nb \in update_side(book.bids, book.n_levels_bid, book.max_levels_bid,
                                      p.bids, TRUE)}

\* consume_message taking a message with an event of type 'snapshot' as the
\* whole book: the levels held so far are dropped before the merge
consumed_snapshot_replaces(book, db, data) ==
    IF data.sequence_num.tag # "int"
    THEN {[book |-> book,
           result |-> IF data.sequence_num.tag = "absent" THEN "KeyError" ELSE "TypeError"]}
    ELSE IF stale(data.sequence_num.val, book.last_sequence_num)
    THEN {[book |-> book, result |-> "dropped"]}
    ELSE
      LET gated == [book EXCEPT !.last_sequence_num = data.sequence_num.val]
          p == parse_data(data)
          whole == \E e \in DOMAIN data.events : data.events[e].type = "snapshot"
      IN  IF p.exc # "none" THEN {[book |-> gated, result |-> p.exc]}
          ELSE {[book |-> [gated EXCEPT !.bids = nb.arr, !.n_levels_bid = nb.n,
                                        !.max_levels_bid = nb.max,
                                        !.asks = na.arr, !.n_levels_ask = na.n,
                                        !.max_levels_ask = na.max],
                 result |-> r] :
                   nb \in update_side(book.bids, IF whole THEN 0 ELSE book.n_levels_bid,
                                      book.max_levels_bid, p.bids, TRUE),
                   na \in update_side(book.asks, IF whole THEN 0 ELSE book.n_levels_ask,
                                      book.max_levels_ask, p.asks, FALSE),
                   r \in IF db = "None" THEN {"TypeError: NoneType"} ELSE SinkResults}

\* consume_message on an OrderBook given as a record of its attributes, db the
\* class attribute order_book: every way the call can end, as the book it
\* leaves and what it returned ("dropped", "ok") or raised; a call of the
\* unset class attribute (None) raises TypeError
consumed(book, db, data) ==
    IF data.sequence_num.tag # "int"
    THEN {[book |-> book,
           result |-> IF data.sequence_num.tag = "absent" THEN "KeyError" ELSE "TypeError"]}
    ELSE IF stale(data.sequence_num.val, book.last_sequence_num)
    THEN {[book |-> book, result |-> "dropped"]}
    ELSE
      LET gated == [book EXCEPT !.last_sequence_num = data.sequence_num.val]
          p == parse_data(data)
      IN  IF p.exc # "none" THEN {[book |-> gated, result |-> p.exc]}
          ELSE {[book |-> [gated EXCEPT !.bids = nb.arr, !.n_levels_bid = nb.n,
                                        !.max_levels_bid = nb.max,
                                        !.asks = na.arr, !.n_levels_ask = na.n,
                                        !.max_levels_ask = na.max],
                 result |-> r] :
                   nb \in update_side(book.bids, book.n_levels_bid, book.max_levels_bid,
                                      p.bids, TRUE),
                   na \in update_side(book.asks, book.n_levels_ask, book.max_levels_ask,
                                      p.asks, FALSE),
                   r \in IF db = "None" THEN {"TypeError: NoneType"} ELSE SinkResults}

\* the attributes of the OrderBook instance the book variables hold
self_book ==
    [bids |-> bids, asks |-> asks, n_levels_bid |-> n_levels_bid,
     n_levels_ask |-> n_levels_ask, max_levels_bid |-> max_levels_bid,
     max_levels_ask |-> max_levels_ask, last_sequence_num |-> last_sequence_num]

\* consume_message on the instance of the book variables: result' is what the
\* call returned or raised
consume_message(data) ==
    /\ msg_seq' = data.sequence_num
    /\ UNCHANGED order_book_db
    /\ \E o \in consumed(self_book, order_book_db, data) :
          /\ bids' = o.book.bids
          /\ asks' = o.book.asks
          /\ n_levels_bid' = o.book.n_levels_bid
          /\ n_levels_ask' = o.book.n_levels_ask
          /\ max_levels_bid' = o.book.max_levels_bid
          /\ max_levels_ask' = o.book.max_levels_ask
          /\ last_sequence_num' = o.book.last_sequence_num
          /\ result' = o.result

\* _update_book ran in the last call
applied == result \in {"ok", "IngressError", "TypeError: NoneType"}
\* a record was handed to the order_book sink in the last call
handed == result \in {"ok", "IngressError"}

\* OrderBook.set_order_book_db
set_order_book_db ==
    /\ order_book_db = "None"
    /\ order_book_db' = "sink"
    /\ UNCHANGED <<bids, asks, n_levels_bid, n_levels_ask, max_levels_bid,
                   max_levels_ask, last_sequence_num, result, msg_seq>>

(***************************************************************************)
(* Depth messages                                                          *)
(***************************************************************************)
BidPrices == {"1", "1.0", "2"}
AskPrices == {"1", "2"}
RawQuantities == {"0", "-1", "1"}

Update(s, t, p, q) == [side |-> s, event_time |-> t, price_level |-> p, new_quantity |-> q]

BookUpdates ==
    {Update("bid", "T1", p, q) : p \in BidPrices, q \in RawQuantities}
    \cup {Update("offer", "T1", p, q) : p \in AskPrices, q \in RawQuantities}

SeqsUpTo(S, n) == UNION {[1..k -> S] : k \in 0..n}

L2Message(seq, ts, us) ==
    [channel |-> "l2_data", sequence_num |-> seq, timestamp |-> ts,
     events |-> << [type |-> "update", updates |-> us] >>]

GoodMessages ==
    {L2Message(IntSeq(n), "T1", us) : n \in 0..MaxSeq, us \in SeqsUpTo(BookUpdates, MaxUpdates)}

\* one field of the message absent or not parsable
BadUpdates ==
    {Update("bid", t, "1", "1") : t \in {Absent, Garbage}}
    \cup {Update("bid", "T1", p, "1") : p \in {Absent, Garbage}}
    \cup {Update("bid", "T1", "1", q) : q \in {Absent, Garbage}}

BadMessages ==
    {L2Message(IntSeq(n), "T1", <<u>>) : n \in 0..MaxSeq, u \in BadUpdates}
    \cup {L2Message(IntSeq(n), ts, <<>>) : n \in 0..MaxSeq, ts \in {Absent, Garbage}}
    \cup {L2Message(s, "T1", <<>>) : s \in {StrSeq, NoSeq}}

BookMessages == GoodMessages \cup BadMessages

\* OrderBook.__init__
new_book ==
    /\ bids = [i \in 1..InitLevels |-> ZeroRow]
    /\ asks = [i \in 1..InitLevels |-> ZeroRow]
    /\ n_levels_bid = 0
    /\ n_levels_ask = 0
    /\ max_levels_bid = InitLevels
    /\ max_levels_ask = InitLevels
    /\ last_sequence_num = -1
    /\ result = "none"
    /\ msg_seq = NoSeq

\* OrderBook.__init__, as a record of the attributes
NewBook ==
    [bids |-> [i \in 1..InitLevels |-> ZeroRow],
     asks |-> [i \in 1..InitLevels |-> ZeroRow],
     n_levels_bid |-> 0, n_levels_ask |-> 0,
     max_levels_bid |-> InitLevels, max_levels_ask |-> InitLevels,
     last_sequence_num |-> -1]

NoTasks == [t \in {} |-> 0]

Coins == {"BTC-USD"}

NoCall == [fn |-> "none", arg |-> <<>>, out |-> <<>>, returned |-> FALSE]

NoResp == [op |-> "none", coin |-> "", code |-> 0]

\* lifespan after startup, suspended at its yield; todo and at are the coins
\* left to cancel and the task awaited once the shutdown runs
Serving == [phase |-> "serving", todo |-> <<>>, at |-> "none"]

\* nothing sent yet, no token built yet; no book of a connector, no shutdown
no_requests ==
    /\ wire = <<>> /\ built = 0
    /\ arrived = <<>> /\ taken = 0
    /\ books = NoTasks /\ lifespan = Serving

\* lifespan startup: app.state.websockets = {}
no_subscriptions ==
    /\ websockets = [c \in Coins |-> 0]
    /\ created = [c \in Coins |-> 0]
    /\ stops = <<>>
    /\ resp = NoResp

\* an OrderBook on its own, the sink installed by set_order_book_db before use
InitBook ==
    /\ new_book
    /\ order_book_db = "sink"
    /\ tasks = NoTasks
    /\ no_subscriptions
    /\ call = NoCall
    /\ no_requests

ConsumeMessage ==
    /\ \E data \in BookMessages : consume_message(data)
    /\ UNCHANGED <<varsConn, varsApp, varsCall, varsWire, varsLife>>

NextBook == ConsumeMessage

vars == <<varsBook, varsConn, varsApp, varsCall, varsWire, varsLife>>

SpecBook == InitBook /\ [][NextBook]_vars

(***************************************************************************)
(* _round_up, _ensure_capacity and OrderBook._parse_data called on their   *)
(* own, as the unit tests call them.                                       *)
(***************************************************************************)
Call(fn, arg) == [fn |-> fn, arg |-> arg, out |-> <<>>, returned |-> FALSE]

\* rows an array passed to _ensure_capacity holds
CapRows == {ZeroRow, <<1, 1>>, <<2, 1>>}

\* arguments of _ensure_capacity: the callers pass an array of max_levels rows
CapacityArgs ==
    UNION {{[arr |-> a, n_levels |-> n, max_levels |-> c] :
               a \in [1..c -> CapRows], n \in 0..MaxL} : c \in 0..MaxCap}

\* update entries of the messages _parse_data is called with
ParsedUpdates ==
    {Update(s, t, p, q) : s \in {"bid", "offer"}, t \in {"T1", "T2"},
                          p \in {"1", "1.0"}, q \in {"0", "1", "2"}}

\* a message with the update entries us split over two events after entry k
TwoEvents(us, k) ==
    [channel |-> "l2_data", sequence_num |-> IntSeq(0), timestamp |-> "T1",
     events |-> << [type |-> "snapshot", updates |-> SubSeq(us, 1, k)],
                   [type |-> "update", updates |-> SubSeq(us, k + 1, Len(us))] >>]

\* the message with the update entries us in one event (k = 0) or in two
ParsedMessage(us, k) ==
    IF k = 0 THEN L2Message(IntSeq(0), "T1", us) ELSE TwoEvents(us, k)

(***************************************************************************)
(* db: the table sinks.  Base.validate and Base.insert on a record (dict). *)
(* A value of a record is a Python object: its type and its text.          *)
(***************************************************************************)
Str(s) == [py |-> "str", v |-> s]
Nanos == [py |-> "TimestampNanos", v |-> "1"]
Micros == [py |-> "TimestampMicros", v |-> "1"]
NDArray == [py |-> "ndarray", v |-> "[[1, 1]]"]

\* repr of float(s) and of int(s) for a text the conversion accepts
float_text(s) ==
    IF s \in {"1", "1.0"} THEN "1.0"
    ELSE IF s \in {"2", "2.0"} THEN "2.0"
    ELSE IF s = "0" THEN "0.0" ELSE "-1.0"
int_text(s) == s

\* a schema entry: the key's validator and whether the key is vol.Required;
\* a key written as a plain string is optional (voluptuous: required=False)
Key(validator, req) == [validator |-> validator, required |-> req]

Floats(keys) == [k \in keys |-> Key("Coerce(float)", FALSE)]

\* Base.vol_meta_schema
vol_meta_schema ==
    [k \in {"timestamp", "product_id"} |->
        IF k = "timestamp" THEN Key("TimestampNanos", FALSE)
        ELSE Key("Coerce(str)", FALSE)]

TickerColumns ==
    {"price", "volume_24_h", "low_24_h", "high_24_h", "low_52_w", "high_52_w",
     "price_percent_chg_24_h", "best_bid", "best_ask", "best_bid_quantity",
     "best_ask_quantity"}

\* the vol.Schema each table class passes to Base.__init__
table_schema(table) ==
    CASE table = "ticker" -> Floats(TickerColumns)
      [] table = "candles" ->
            ("start" :> Key("TimestampMicros", FALSE))
            @@ Floats({"low", "high", "open", "close", "volume"})
      [] table = "market_trades" ->
            ("trade_id" :> Key("Coerce(int)", FALSE))
            @@ ("side" :> Key("Coerce(str)", FALSE))
            @@ Floats({"price", "size"})
      [] table = "order_book" ->
            [k \in {"bids", "asks"} |-> Key("isNDArray", TRUE)]

\* the tables constructed with a vol_schema (Level2 has a pa_schema only)
DictTables == {"ticker", "candles", "market_trades", "order_book"}

\* Base.__init__: self.vol_schema, the table's entries over the meta entries
vol_schema(table) == table_schema(table) @@ vol_meta_schema

\* Base.__init__: self.symbs
symbs(table) ==
    IF table \in {"market_trades", "level2"} THEN {"product_id", "side"}
    ELSE {"product_id"}

\* what a validator makes of a value: the validated value, or no value
\* (vol.Invalid).  Coerce(str) accepts every object.
validated(validator, x) ==
    CASE validator = "Coerce(float)" ->
            IF x.py = "str" /\ IsNumeric(x.v)
            THEN [ok |-> TRUE, val |-> [py |-> "float", v |-> float_text(x.v)]]
            ELSE [ok |-> FALSE, val |-> x]
      [] validator = "Coerce(int)" ->
            IF x.py = "str" /\ x.v \in {"1", "2"}
            THEN [ok |-> TRUE, val |-> [py |-> "int", v |-> int_text(x.v)]]
            ELSE [ok |-> FALSE, val |-> x]
      [] validator = "Coerce(str)" ->
            [ok |-> TRUE, val |-> [py |-> "str", v |-> x.v]]
      [] validator = "isNDArray" ->
            [ok |-> x.py = "ndarray", val |-> x]
      [] OTHER ->
            [ok |-> x.py = validator, val |-> x]

\* a vol.Schema called on a dict: a key the schema does not hold, a value its
\* validator rejects and a vol.Required key that is not there are errors
\* (MultipleInvalid); otherwise the dict of the validated values is returned
schema_errors(schema, data) ==
    {k \in DOMAIN data : k \notin DOMAIN schema}
    \cup {k \in DOMAIN data \cap DOMAIN schema : ~validated(schema[k].validator, data[k]).ok}
    \cup {k \in DOMAIN schema : schema[k].required /\ k \notin DOMAIN data}

\* Base.validate on a dict
validate(table, data) ==
    IF table \notin DictTables THEN [exc |-> "TypeError", data |-> data]
    ELSE IF schema_errors(vol_schema(table), data) # {}
    THEN [exc |-> "Invalid", data |-> data]
    ELSE [exc |-> "none",
          data |-> [k \in DOMAIN data |-> validated(vol_schema(table)[k].validator, data[k]).val]]

\* what sender.row can do with a row: accept it or raise
RowResults == {"ok", "IngressError"}

\* Base.insert: every way the call can end.  exc is the exception raised,
\* passed whether validate returned, validated the keys of the record it
\* returned, row the keys handed to sender.row
insert(table, data) ==
    LET r == validate(table, data)
        none == [exc |-> r.exc, validated |-> {}, row |-> {}, passed |-> FALSE]
    IN  IF r.exc # "none" THEN {none}
        ELSE IF ~(symbs(table) \cup {"timestamp"} \subseteq DOMAIN r.data)
        THEN {[none EXCEPT !.exc = "KeyError", !.validated = DOMAIN r.data,
                           !.passed = TRUE]}
        ELSE {[exc |-> IF s = "ok" THEN "none" ELSE s, validated |-> DOMAIN r.data,
               row |-> DOMAIN r.data, passed |-> TRUE] : s \in RowResults}

\* a value the table's validator for the column accepts, as the feed and the
\* update() methods give it
good_value(table, k) ==
    LET validator == vol_schema(table)[k].validator
    IN  CASE validator = "TimestampNanos" -> Nanos
          [] validator = "TimestampMicros" -> Micros
          [] validator = "isNDArray" -> NDArray
          [] validator = "Coerce(str)" -> Str("BTC-USD")
          [] OTHER -> Str("1")

\* a value that is not of the column's type: a text that is no number
bad_value == Str(Garbage)

\* the record of a table with the columns in gone left out and those in bad
\* holding bad_value
Record(table, gone, bad) ==
    [k \in DOMAIN vol_schema(table) \ gone |->
        IF k \in bad THEN bad_value ELSE good_value(table, k)]

InsertArg(table, data) == [table |-> table, data |-> data]

\* _parse_data followed by _update_book, as consume_message calls them, on an
\* OrderBook given as a record: every way the two calls can end
parsed_and_updated(book, data) ==
    LET p == parse_data(data)
    IN  IF p.exc # "none" THEN {[exc |-> p.exc, book |-> book]}
        ELSE {[exc |-> "none",
               book |-> [book EXCEPT !.bids = nb.arr, !.n_levels_bid = nb.n,
                                     !.max_levels_bid = nb.max,
                                     !.asks = na.arr, !.n_levels_ask = na.n,
                                     !.max_levels_ask = na.max]] :
                 nb \in update_side(book.bids, book.n_levels_bid, book.max_levels_bid,
                                    p.bids, TRUE),
                 na \in update_side(book.asks, book.n_levels_ask, book.max_levels_ask,
                                    p.asks, FALSE)}

(***************************************************************************)
(* Websocket._build_jwt, the clock given in ticks                          *)
(***************************************************************************)
\* 'exp': int(time.time()) + 120
Validity == 120

\* int(time.time()) with the clock at c ticks
seconds(c) == c \div TicksPerSecond

\* jwt_payload of _build_jwt: 'nbf' is made from a first reading of the clock
\* and 'exp' from a second one
jwt_payload(first, second) ==
    [sub |-> "KEY_NAME", iss |-> "cdp",
     nbf |-> seconds(first), exp |-> seconds(second) + Validity]

\* the argument of a call: the clock when _build_jwt reads it first and the
\* ticks that pass until it reads it again
ClockArg(c, d) == [clock |-> c, advance |-> d]

InitCall ==
    /\ new_book
    /\ order_book_db = "sink"
    /\ tasks = NoTasks
    /\ no_subscriptions
    /\ no_requests
    /\ \/ \E n \in (-2)..MaxN : call = Call("round_up", n)
       \/ \E x \in CapacityArgs : call = Call("ensure_capacity", x)
       \/ \E us \in SeqsUpTo(ParsedUpdates, MaxParsed) : \E k \in 0..Len(us) :
             call = Call("parse_data", ParsedMessage(us, k))
       \/ \E us \in SeqsUpTo(ParsedUpdates, MaxParsed) : \E k \in 0..Len(us) :
             call = Call("update_book", ParsedMessage(us, k))
       \/ \E c \in 0..MaxClock : \E d \in 0..MaxAdvance :
             call = Call("build_jwt", ClockArg(c, d))
       \/ \E table \in DictTables : \E alt \in SUBSET DOMAIN vol_schema(table) :
             /\ Cardinality(alt) <= MaxAltered
             /\ \E bad \in SUBSET alt :
                   call = Call("insert", InsertArg(table, Record(table, alt \ bad, bad)))

returns(out) ==
    /\ ~call.returned
    /\ call' = [call EXCEPT !.out = out, !.returned = TRUE]
    /\ UNCHANGED <<varsBook, varsConn, varsApp, varsWire, varsLife>>

RoundUp == call.fn = "round_up" /\ returns(round_up(call.arg))

EnsureCapacity ==
    /\ call.fn = "ensure_capacity"
    /\ returns(ensure_capacity(call.arg.arr, call.arg.n_levels, call.arg.max_levels))

ParseData == call.fn = "parse_data" /\ returns(parse_data(call.arg))

Insert ==
    /\ call.fn = "insert"
    /\ \E out \in insert(call.arg.table, call.arg.data) : returns(out)

BuildJwt ==
    /\ call.fn = "build_jwt"
    /\ returns(jwt_payload(call.arg.clock, call.arg.clock + call.arg.advance))

\* the deltas of a message parsed and applied to a new OrderBook
UpdateBook ==
    /\ call.fn = "update_book"
    /\ \E out \in parsed_and_updated(NewBook, call.arg) : returns(out)

NextCall == RoundUp \/ EnsureCapacity \/ ParseData \/ Insert \/ BuildJwt \/ UpdateBook

SpecCall == InitCall /\ [][NextCall]_vars

(***************************************************************************)
(* Websocket: one connector task running Websocket.websocket()             *)
(***************************************************************************)
\* the channel lists subscribe_coin constructs the two connectors with
Channels(kind) ==
    IF kind = "main" THEN <<"candles", "market_trades", "ticker">>
    ELSE <<"l2_data">>

\* Websocket.__init__: an OrderBook is created iff 'l2_data' is a channel
owns_book(kind) == \E i \in DOMAIN Channels(kind) : Channels(kind)[i] = "l2_data"

\* a task just created for a connector: status is what _task_status reports,
\* pc the await the coroutine is suspended at, cancel a pending task.cancel(),
\* sent the subscribe requests sent on the current connection, handled the
\* outcome of the handler of the last dispatched message, level2 whether that
\* handler called self.db.level2, handler the entry of channel_to_table that
\* was called for that message
new_task(kind) ==
    [kind |-> kind, pc |-> "connecting", status |-> "running",
     cancel |-> FALSE, sent |-> 0, handled |-> "none", level2 |-> FALSE,
     handler |-> "none"]

running(t) ==
    /\ t \in DOMAIN tasks
    /\ tasks[t].status = "running"
    /\ ~tasks[t].cancel

\* async for websocket in websockets.connect(...): the transport yields a connection
Connect(t) ==
    /\ running(t)
    /\ tasks[t].pc = "connecting"
    /\ tasks' = [tasks EXCEPT ![t].pc = "subscribing", ![t].sent = 0]

\* the iteration over websockets.connect(...) ends (the iterator is exhausted:
\* the coroutine returns) or raises (an error the transport does not retry)
TransportStops(t) ==
    /\ running(t)
    /\ tasks[t].pc = "connecting"
    /\ \E st \in {"done", "failed"} :
          tasks' = [tasks EXCEPT ![t].pc = "ended", ![t].status = st]

\* the loop over self.channels left after its first iteration
Subscribe_first_only(t) ==
    /\ running(t)
    /\ tasks[t].pc = "subscribing"
    /\ tasks' = [tasks EXCEPT ![t].sent = @ + 1, ![t].pc = "streaming"]

\* for channel in self.channels: await self._subscribe(websocket, channel);
\* after the last send the consumer task is created and awaited
Subscribe(t) ==
    /\ running(t)
    /\ tasks[t].pc = "subscribing"
    /\ tasks' = [tasks EXCEPT
          ![t].sent = @ + 1,
          ![t].pc = IF tasks[t].sent + 1 = Len(Channels(tasks[t].kind))
                    THEN "streaming" ELSE "subscribing"]

\* where a ConnectionClosed raised by websocket.send in _subscribe goes: the
\* sends are outside the try of websocket(), so it leaves the coroutine
send_closed(task) == [task EXCEPT !.pc = "ended", !.status = "failed"]

\* the connection is lost while a subscribe request is sent
SubscribeClosed(t) ==
    /\ running(t)
    /\ tasks[t].pc = "subscribing"
    /\ tasks' = [tasks EXCEPT ![t] = send_closed(@)]

\* where the end of the consumer goes: ConnectionClosedError is caught and the
\* loop continues; a clean close ends "async for message" and the loop goes on
recv_closed(task) == [task EXCEPT !.pc = "connecting"]

\* the connection is lost while the consumer waits for a message
ConnectionClosed(t) ==
    /\ running(t)
    /\ tasks[t].pc = "streaming"
    /\ tasks' = [tasks EXCEPT ![t] = recv_closed(@)]

\* the except clauses of _consume_messages
Caught == {"SchemaError", "Invalid", "IngressError"}

\* the handler outcomes with the except clause for IngressError left out
after_handler_no_ingress(task, r) ==
    IF r = "ok" \/ r \in {"SchemaError", "Invalid"}
    THEN [task EXCEPT !.handled = r]
    ELSE [task EXCEPT !.handled = r, !.pc = "ended", !.status = "failed"]

\* the connector after the handler of a message returned or raised r: an
\* exception outside Caught leaves _consume_messages and, through
\* "await consumer_task", websocket()
after_handler(task, r) ==
    IF r = "ok" \/ r \in Caught
    THEN [task EXCEPT !.handled = r]
    ELSE [task EXCEPT !.handled = r, !.pc = "ended", !.status = "failed"]

\* what a call of db.candles / db.market_trades / db.ticker can end with
TableResults == {"ok", "SchemaError", "Invalid", "IngressError", "KeyError"}

\* Level2.__call__ on one event: snapshot (DataFrame, pd.Timestamp,
\* pd.to_datetime), then ingest (pandera validate, sender.dataframe)
level2_event(ts, us) ==
    IF ts = Absent THEN {"KeyError"}
    ELSE IF ~IsTime(ts) THEN {"ValueError"}
    ELSE IF \A i \in DOMAIN us : us[i].event_time = Absent THEN {"KeyError"}
    ELSE IF \E i \in DOMAIN us : us[i].event_time # Absent /\ ~IsTime(us[i].event_time)
         THEN {"ValueError"}
    ELSE IF \E i \in DOMAIN us :
               \/ Absent \in {us[i].event_time, us[i].side, us[i].price_level, us[i].new_quantity}
               \/ ~IsNumeric(us[i].price_level)
               \/ ~IsNumeric(us[i].new_quantity)
         THEN {"SchemaError"}
    ELSE {"ok", "IngressError"}

RECURSIVE level2_events(_, _)
level2_events(ts, events) ==
    IF events = <<>> THEN {"ok"}
    ELSE LET r == level2_event(ts, Head(events).updates)
         IN (r \ {"ok"}) \cup (IF "ok" \in r THEN level2_events(ts, Tail(events)) ELSE {})

\* self.db.level2(data)
level2_call(data) == level2_events(data.timestamp, data.events)

TableChannels == {"candles", "market_trades", "ticker"}

\* the task after a handler that ended with r and did (l2) or did not call
\* self.db.level2
handler_ran(task, r, l2) == [after_handler(task, r) EXCEPT !.level2 = l2]

\* the task with handler noted as the one called for the message
called(task, handler) == [task EXCEPT !.handler = handler]

\* the connector after Websocket._level2 and the except clauses, the call of
\* consume_message having ended with res: an exception raised by
\* consume_message leaves _level2 before self.db.level2 is called
level2_tasks(task, res, data) ==
    IF res \in {"ok", "dropped"}
    THEN {handler_ran(called(task, "_level2"), r, TRUE) : r \in level2_call(data)}
    ELSE {handler_ran(called(task, "_level2"), res, FALSE)}

\* Websocket._level2 followed by the except clauses
level2_dispatch(t, data) ==
    IF owns_book(tasks[t].kind)
    THEN /\ consume_message(data)
         /\ \E task \in level2_tasks(tasks[t], result', data) :
               tasks' = [tasks EXCEPT ![t] = task]
    ELSE /\ UNCHANGED varsBook
         /\ \E task \in level2_tasks(tasks[t], "ok", data) :
               tasks' = [tasks EXCEPT ![t] = task]

\* channel_to_table with the ticker handler as the default of the defaultdict
channel_to_table_ticker(channel) ==
    IF channel = "l2_data" THEN "_level2"
    ELSE IF channel \in TableChannels THEN channel
    ELSE "ticker"

\* channel_to_table[data.get('channel')]: the handler registered for the
\* channel, no_op for every other key (None, the absent tag, included)
channel_to_table(channel) ==
    IF channel = "l2_data" THEN "_level2"
    ELSE IF channel \in TableChannels THEN channel
    ELSE "no_op"

\* one iteration of "async for message in websocket" in _consume_messages
Dispatch(t, data) ==
    /\ running(t)
    /\ tasks[t].pc = "streaming"
    /\ LET handler == channel_to_table(data.channel)
       IN  IF handler = "_level2" THEN level2_dispatch(t, data)
           ELSE /\ UNCHANGED varsBook
                /\ IF handler \in TableChannels
                   THEN \E r \in TableResults :
                           tasks' = [tasks EXCEPT ![t] = handler_ran(called(@, handler), r, FALSE)]
                   ELSE tasks' = [tasks EXCEPT ![t] = handler_ran(called(@, handler), "ok", FALSE)]

\* task.cancel(): a request on a task that has not finished, nothing otherwise
cancel(task) ==
    IF task.status = "running" THEN [task EXCEPT !.cancel = TRUE] ELSE task

Cancel(t) ==
    /\ running(t)
    /\ tasks' = [tasks EXCEPT ![t] = cancel(@)]

\* CancelledError handled like ConnectionClosedError: "continue" for "break"
cancelled_continue(task) ==
    IF task.pc = "streaming"
    THEN [task EXCEPT !.pc = "connecting", !.cancel = FALSE]
    ELSE [task EXCEPT !.pc = "ended", !.status = "cancelled"]

\* where the CancelledError goes: raised at "await consumer_task" it is caught
\* and the loop is left (the coroutine returns); raised at the connect or at a
\* send it leaves the coroutine
cancelled_at(task) ==
    IF task.pc = "streaming"
    THEN [task EXCEPT !.pc = "ended", !.status = "done"]
    ELSE [task EXCEPT !.pc = "ended", !.status = "cancelled"]

\* the event loop throws CancelledError into the task at its await
DeliverCancel(t) ==
    /\ t \in DOMAIN tasks
    /\ tasks[t].status = "running"
    /\ tasks[t].cancel
    /\ tasks' = [tasks EXCEPT ![t] = cancelled_at(@)]

\* messages a connector receives
ConnUpdateLists ==
    {<<>>,
     <<Update("bid", "T1", "1", "1")>>,
     <<Update("bid", "T1", "1", "0")>>,
     <<Update("offer", "T1", "2", "1")>>,
     <<Update("bid", "T1", "1", "1"), Update("offer", "T1", "2", "1")>>}

OtherMessage(ch) ==
    [channel |-> ch, sequence_num |-> NoSeq, timestamp |-> "T1", events |-> <<>>]

MalformedL2 == BadMessages

ConnMessages ==
    {L2Message(IntSeq(n), "T1", us) : n \in 0..MaxSeq, us \in ConnUpdateLists}
    \cup MalformedL2
    \cup {OtherMessage(ch) : ch \in TableChannels \cup {"heartbeats", "subscriptions", Absent}}

\* the connector under test
Conn(kind) == <<"BTC-USD", kind, 1>>

InitConn ==
    /\ new_book
    /\ order_book_db = "None"
    /\ \E kind \in {"main", "l2"} : tasks = (Conn(kind) :> new_task(kind))
    /\ no_subscriptions
    /\ call = NoCall
    /\ no_requests

ConnTask == CHOOSE t \in DOMAIN tasks : TRUE

\* the token the n-th call of _build_jwt returns: every call draws a nonce of
\* its own (secrets.token_hex)
build_jwt(n) == [nonce |-> n]

\* the message _subscribe makes for a channel ('heartbeats' has no product_ids)
subscribe_message(coin, channel) ==
    [type |-> "subscribe", channel |-> channel,
     product_ids |-> IF channel = "heartbeats" THEN <<>> ELSE <<coin>>]

\* the message _unsubscribe makes for a channel
unsubscribe_message(coin, channel) ==
    [type |-> "unsubscribe", channel |-> channel,
     product_ids |-> IF channel = "heartbeats" THEN <<>> ELSE <<coin>>]

\* _sign_with_jwt with the token built for the connection's first request
\* kept and put into every later one
sign_with_jwt_cached(message, n) ==
    [type |-> message.type, channel |-> message.channel,
     product_ids |-> message.product_ids,
     jwt |-> IF wire = <<>> \/ wire[Len(wire)] = <<>> THEN build_jwt(n + 1)
             ELSE wire[Len(wire)][1].jwt]

\* _sign_with_jwt after n earlier calls of _build_jwt: a token is built and
\* put into the message
sign_with_jwt(message, n) ==
    [type |-> message.type, channel |-> message.channel,
     product_ids |-> message.product_ids, jwt |-> build_jwt(n + 1)]

\* websocket.send: the request goes out on the current connection
send(w, request) == [w EXCEPT ![Len(w)] = Append(@, request)]

\* the transport yields a connection to the connector
Connected(t) ==
    /\ Connect(t)
    /\ Len(wire) < MaxConns
    /\ wire' = Append(wire, <<>>)
    /\ UNCHANGED <<built, varsRecv>>

\* _subscribe for the next channel: the message is made and signed, then sent
Subscribed(t) ==
    /\ Subscribe(t)
    /\ LET channel == Channels(tasks[t].kind)[tasks[t].sent + 1]
       IN  wire' = send(wire, sign_with_jwt(subscribe_message(t[1], channel), built))
    /\ built' = built + 1
    /\ UNCHANGED varsRecv

\* _subscribe for the next channel: the message is made and signed, the send
\* raises
SubscribeFailed(t) ==
    /\ SubscribeClosed(t)
    /\ built' = built + 1
    /\ UNCHANGED <<wire, varsRecv>>

NextConn ==
    \/ Connected(ConnTask) /\ UNCHANGED <<varsBook, varsApp, varsCall, varsLife>>
    \/ TransportStops(ConnTask) /\ UNCHANGED <<varsBook, varsApp, varsCall, varsWire, varsLife>>
    \/ Subscribed(ConnTask) /\ UNCHANGED <<varsBook, varsApp, varsCall, varsLife>>
    \/ SubscribeFailed(ConnTask) /\ UNCHANGED <<varsBook, varsApp, varsCall, varsLife>>
    \/ ConnectionClosed(ConnTask) /\ UNCHANGED <<varsBook, varsApp, varsCall, varsWire, varsLife>>
    \/ (\E data \in ConnMessages : Dispatch(ConnTask, data)) /\ UNCHANGED <<varsApp, varsCall, varsWire, varsLife>>
    \/ Cancel(ConnTask) /\ UNCHANGED <<varsBook, varsApp, varsCall, varsWire, varsLife>>
    \/ DeliverCancel(ConnTask) /\ UNCHANGED <<varsBook, varsApp, varsCall, varsWire, varsLife>>
    \/ set_order_book_db /\ UNCHANGED <<varsConn, varsApp, varsCall, varsWire, varsLife>>

SpecConn == InitConn /\ [][NextConn]_vars

\* the event loop runs a task whose cancellation is pending
SpecConnFair ==
    SpecConn /\ WF_vars(DeliverCancel(ConnTask) /\ UNCHANGED <<varsBook, varsApp, varsCall, varsWire, varsLife>>)


(***************************************************************************)
(* app.py: the subscription lifecycle manager.  An entry of                *)
(* app.state.websockets is identified by the number of the start request   *)
(* that created it; its two tasks are <<coin, "main", g>> and              *)
(* <<coin, "l2", g>>.  Handlers run on one event loop: a handler runs from *)
(* one await that suspends it to the next without interleaving.            *)
(***************************************************************************)
Task(coin, kind, g) == <<coin, kind, g>>

Resp(op, coin, code) == [op |-> op, coin |-> coin, code |-> code]

\* the task a suspended unsubscribe_coin call awaits
awaited(frame) == Task(frame.coin, frame.at, frame.entry)

\* the suspended calls whose awaited task has finished: the task's done
\* callbacks put them on the ready queue one after the other, so they run
\* before anything scheduled later
ready == {i \in DOMAIN stops : tasks[awaited(stops[i])].status # "running"}

idle == ready = {}

\* "await task" in cancel_coin_tasks: suspends on a task that has not
\* finished; re-raises the exception of a failed task; CancelledError of a
\* cancelled task is caught; returns for a task that returned
await_task(task) ==
    CASE task.status = "running" -> "suspend"
      [] task.status = "failed" -> "raise"
      [] OTHER -> "pass"

\* the iteration of "for task in tasks.values()" for 'l2', the last one,
\* followed by the del statement
loop_l2(tks, coin, g) ==
    LET t == Task(coin, "l2", g)
        c == [tks EXCEPT ![t] = cancel(@)]
    IN  [tasks |-> c, at |-> "l2",
         end |-> IF await_task(c[t]) = "pass" THEN "del" ELSE await_task(c[t])]

\* the loop with task.cancel() called on the main task of every instrument
loop_main_every_coin(tks, coin, g) ==
    LET t == Task(coin, "main", g)
        c == [u \in DOMAIN tks |-> IF u[2] = "main" THEN cancel(tks[u]) ELSE tks[u]]
    IN  IF await_task(c[t]) = "pass" THEN loop_l2(c, coin, g)
        ELSE [tasks |-> c, at |-> "main", end |-> await_task(c[t])]

\* the loop from its first iteration, for 'main'
loop_main(tks, coin, g) ==
    LET t == Task(coin, "main", g)
        c == [tks EXCEPT ![t] = cancel(@)]
    IN  IF await_task(c[t]) = "pass" THEN loop_l2(c, coin, g)
        ELSE [tasks |-> c, at |-> "main", end |-> await_task(c[t])]

\* the loop from the await a call was suspended at, its task having finished
loop_resumed(tks, frame) ==
    IF await_task(tks[awaited(frame)]) = "raise"
    THEN [tasks |-> tks, at |-> frame.at, end |-> "raise"]
    ELSE IF frame.at = "main" THEN loop_l2(tks, frame.coin, frame.entry)
    ELSE [tasks |-> tks, at |-> "l2", end |-> "del"]

\* tasks nothing refers to any more are dropped from the state: a task is kept
\* while it runs, while its entry is in websockets or while a suspended call
\* holds its entry
collect(tks, ws, frames) ==
    LET kept == {t \in DOMAIN tks :
                    \/ tks[t].status = "running"
                    \/ ws[t[1]] = t[3]
                    \/ \E i \in DOMAIN frames :
                          frames[i].coin = t[1] /\ frames[i].entry = t[3]}
    IN  [t \in kept |-> tks[t]]

\* cancel_coin_tasks with the del statement before the loop over the tasks
cancel_coin_tasks_del_first(coin, g, run, others) ==
    IF run.end = "suspend"
    THEN /\ stops' = others
         /\ tasks' = run.tasks
         /\ websockets' = [websockets EXCEPT ![coin] = 0]
         /\ resp' = NoResp
         /\ UNCHANGED created
    ELSE IF run.end = "raise" \/ websockets[coin] = 0
    THEN /\ stops' = others
         /\ tasks' = collect(run.tasks, websockets, others)
         /\ resp' = Resp("stop", coin, 500)
         /\ UNCHANGED <<websockets, created>>
    ELSE /\ stops' = others
         /\ websockets' = [websockets EXCEPT ![coin] = 0]
         /\ tasks' = collect(run.tasks, websockets', others)
         /\ resp' = Resp("stop", coin, 200)
         /\ UNCHANGED created

\* cancel_coin_tasks, called by unsubscribe_coin, from the point run came to:
\* suspended again, left by an exception (500), or at the del statement, which
\* raises KeyError (500) when the entry is gone; others are the other
\* suspended calls
cancel_coin_tasks(coin, g, run, others) ==
    IF run.end = "suspend"
    THEN /\ stops' = others
         /\ tasks' = run.tasks
         /\ resp' = NoResp
         /\ UNCHANGED <<websockets, created>>
    ELSE IF run.end = "raise" \/ websockets[coin] = 0
    THEN /\ stops' = others
         /\ tasks' = collect(run.tasks, websockets, others)
         /\ resp' = Resp("stop", coin, 500)
         /\ UNCHANGED <<websockets, created>>
    ELSE /\ stops' = others
         /\ websockets' = [websockets EXCEPT ![coin] = 0]
         /\ tasks' = collect(run.tasks, websockets', others)
         /\ resp' = Resp("stop", coin, 200)
         /\ UNCHANGED created

\* the membership check of subscribe_coin
conflict_never(coin) == FALSE

conflict(coin) == websockets[coin] # 0

\* POST /coins/{coin}
subscribe_coin(coin) ==
    /\ idle
    /\ IF conflict(coin)
       THEN /\ resp' = Resp("start", coin, 409)
            /\ UNCHANGED <<tasks, websockets, created, stops>>
       ELSE /\ created[coin] < MaxSubs
            /\ LET g == created[coin] + 1
               IN  /\ tasks' = (Task(coin, "main", g) :> new_task("main"))
                               @@ (Task(coin, "l2", g) :> new_task("l2"))
                               @@ collect(tasks, [websockets EXCEPT ![coin] = g], stops)
                   /\ websockets' = [websockets EXCEPT ![coin] = g]
                   /\ created' = [created EXCEPT ![coin] = g]
            /\ resp' = Resp("start", coin, 201)
            /\ UNCHANGED stops
    /\ UNCHANGED <<varsBook, varsCall, varsWire>>

\* DELETE /coins/{coin}, up to its first suspension
unsubscribe_coin(coin) ==
    /\ idle
    /\ Len(stops) < MaxStops
    /\ IF websockets[coin] = 0
       THEN /\ resp' = Resp("stop", coin, 404)
            /\ UNCHANGED <<tasks, websockets, created, stops>>
       ELSE LET g == websockets[coin]
                run == loop_main(tasks, coin, g)
                frame == [coin |-> coin, entry |-> g, at |-> run.at]
            IN  cancel_coin_tasks(coin, g, run,
                    IF run.end = "suspend" THEN Append(stops, frame) ELSE stops)
    /\ UNCHANGED <<varsBook, varsCall, varsWire>>

without(seq, i) == [j \in 1..(Len(seq) - 1) |-> IF j < i THEN seq[j] ELSE seq[j + 1]]

\* the first ready call runs on from its await
Resume ==
    /\ ~idle
    /\ LET i == CHOOSE i \in ready : \A j \in ready : i <= j
           run == loop_resumed(tasks, stops[i])
       IN  cancel_coin_tasks(stops[i].coin, stops[i].entry, run,
               IF run.end = "suspend"
               THEN [stops EXCEPT ![i].at = run.at]
               ELSE without(stops, i))
    /\ UNCHANGED <<varsBook, varsCall, varsWire>>

\* asyncio.Task as _task_status reads it.  The status field of a task is its
\* asyncio state: "running" pending, "cancelled" cancelled, "failed" finished
\* with an exception set, "done" finished with a result.
\* task.done()
done(task) == task.status # "running"

\* task.cancelled()
cancelled(task) == task.status = "cancelled"

\* task.exception(): the exception or None of a finished task; the call itself
\* raises on a task that is cancelled or has not finished
exception(task) ==
    CASE task.status = "running" -> "raises InvalidStateError"
      [] task.status = "cancelled" -> "raises CancelledError"
      [] task.status = "failed" -> "exception"
      [] OTHER -> "None"

\* _task_status with the test for an exception before the test for cancelled
task_status_failed_first(task) ==
    IF ~done(task) THEN "running"
    ELSE IF exception(task) \in {"raises InvalidStateError", "raises CancelledError"}
         THEN exception(task)
    ELSE IF exception(task) # "None" THEN "failed"
    ELSE IF cancelled(task) THEN "cancelled"
    ELSE "done"

\* _task_status
task_status(task) ==
    IF ~done(task) THEN "running"
    ELSE IF cancelled(task) THEN "cancelled"
    ELSE IF exception(task) \in {"raises InvalidStateError", "raises CancelledError"}
         THEN exception(task)
    ELSE IF exception(task) # "None" THEN "failed"
    ELSE "done"

\* GET /coins/{coin}/status
coin_status(coin) ==
    IF websockets[coin] = 0 THEN [code |-> 404]
    ELSE [code |-> 200,
          main |-> task_status(tasks[Task(coin, "main", websockets[coin])]),
          l2 |-> task_status(tasks[Task(coin, "l2", websockets[coin])])]

\* GET /coins
list_coins == {c \in DOMAIN websockets : websockets[c] # 0}

\* what the handler of a message can end with (Dispatch, with the message and
\* the connector's book left out)
Outcomes == {"ok", "IngressError", "KeyError"}

Handle(t, r) ==
    /\ running(t)
    /\ tasks[t].pc = "streaming"
    /\ tasks' = [tasks EXCEPT ![t] = after_handler(@, r)]

\* a step of a connector task between two steps of the handlers
task_step(A) ==
    /\ idle
    /\ A
    /\ resp' = NoResp
    /\ UNCHANGED <<varsBook, websockets, created, stops, varsCall, varsWire, varsLife>>

InitApp ==
    /\ new_book
    /\ order_book_db = "None"
    /\ tasks = NoTasks
    /\ no_subscriptions
    /\ call = NoCall
    /\ no_requests

NextApp ==
    \/ \E coin \in Coins : subscribe_coin(coin) /\ UNCHANGED varsLife
    \/ \E coin \in Coins : unsubscribe_coin(coin) /\ UNCHANGED varsLife
    \/ Resume /\ UNCHANGED varsLife
    \/ \E t \in DOMAIN tasks : task_step(Connect(t))
    \/ \E t \in DOMAIN tasks : task_step(TransportStops(t))
    \/ \E t \in DOMAIN tasks : task_step(Subscribe(t))
    \/ \E t \in DOMAIN tasks : task_step(SubscribeClosed(t))
    \/ \E t \in DOMAIN tasks : task_step(ConnectionClosed(t))
    \/ \E t \in DOMAIN tasks : \E r \in Outcomes : task_step(Handle(t, r))
    \/ \E t \in DOMAIN tasks : task_step(DeliverCancel(t))

SpecApp == InitApp /\ [][NextApp]_vars

(***************************************************************************)
(* app.py with several instruments: each l2 connector with the OrderBook   *)
(* of its own, and the shutdown half of lifespan.  The server runs the     *)
(* shutdown after the request handlers have returned and takes no request  *)
(* from then on.  Of the messages the connectors dispatch, the depth        *)
(* messages of the l2 connectors are followed; a connector fails when the  *)
(* transport raises or when the handler of a depth message raises.         *)
(***************************************************************************)
Instruments == {"BTC-USD", "ETH-USD"}

\* the books of the l2 connectors among the tasks tks: the book a connector
\* has, a new one for a connector just constructed
kept_books(tks) ==
    [t \in {t \in DOMAIN tks : owns_book(tks[t].kind)} |->
        IF t \in DOMAIN books THEN books[t] ELSE NewBook]

serving == lifespan.phase = "serving"

\* the event loop runs: lifespan has neither returned nor raised
loop_runs == lifespan.phase \in {"serving", "shutdown"}

\* depth messages the feed sends for an instrument
CoinMessages ==
    {L2Message(IntSeq(n), "T1", <<Update("bid", "T1", "1", "1")>>) : n \in 0..MaxSeq}

\* one iteration of "async for message in websocket" of the l2 connector t for
\* a depth message: _level2 on the connector's own book
DepthDispatch(t, data) ==
    /\ idle
    /\ running(t)
    /\ tasks[t].pc = "streaming"
    /\ owns_book(tasks[t].kind)
    /\ \E o \in consumed(books[t], order_book_db, data) :
          /\ books' = [books EXCEPT ![t] = o.book]
          /\ \E task \in level2_tasks(tasks[t], o.result, data) :
                tasks' = [tasks EXCEPT ![t] = task]
    /\ resp' = NoResp
    /\ UNCHANGED <<varsBook, websockets, created, stops, varsCall, varsWire, lifespan>>

RECURSIVE cancel_all(_, _, _)
\* lifespan after its yield, from the iteration of
\* "for coin in list(app.state.websockets.keys())" for the first coin of todo
\* to its next suspension: cancel_coin_tasks for the coin, then the next
\* coin; an exception of an awaited task leaves lifespan; after the last coin
\* Base.close() is reached
cancel_all(tks, ws, todo) ==
    IF todo = <<>>
    THEN [tasks |-> tks, websockets |-> ws,
          lifespan |-> [phase |-> "closed", todo |-> <<>>, at |-> "none"]]
    ELSE IF ws[Head(todo)] = 0 THEN cancel_all(tks, ws, Tail(todo))
    ELSE
      LET run == loop_main(tks, Head(todo), ws[Head(todo)])
      IN  IF run.end = "del"
          THEN cancel_all(run.tasks, [ws EXCEPT ![Head(todo)] = 0], Tail(todo))
          ELSE [tasks |-> run.tasks, websockets |-> ws,
                lifespan |-> [phase |-> IF run.end = "raise" THEN "raised" ELSE "shutdown",
                              todo |-> todo, at |-> run.at]]

\* the same from the await lifespan is suspended at, its task having finished
cancel_resumed(tks, ws, life) ==
    LET coin == Head(life.todo)
        run == loop_resumed(tks, [coin |-> coin, entry |-> ws[coin], at |-> life.at])
    IN  IF run.end = "del"
        THEN cancel_all(run.tasks, [ws EXCEPT ![coin] = 0], Tail(life.todo))
        ELSE [tasks |-> run.tasks, websockets |-> ws,
              lifespan |-> [phase |-> IF run.end = "raise" THEN "raised" ELSE "shutdown",
                            todo |-> life.todo, at |-> run.at]]

\* the state a run of the shutdown loop leaves
shutdown_ran(r) ==
    /\ tasks' = collect(r.tasks, r.websockets, <<>>)
    /\ websockets' = r.websockets
    /\ lifespan' = r.lifespan
    /\ books' = kept_books(tasks')
    /\ resp' = NoResp
    /\ UNCHANGED <<varsBook, created, stops, varsCall, varsWire>>

\* the orders the keys of app.state.websockets can stand in
key_orders ==
    LET keys == {c \in Instruments : websockets[c] # 0}
    IN  {order \in SeqsUpTo(keys, Cardinality(keys)) :
            /\ Len(order) = Cardinality(keys)
            /\ \A i \in DOMAIN order : \A j \in DOMAIN order : i # j => order[i] # order[j]}

\* the server shuts down: lifespan runs on from its yield
Shutdown ==
    /\ serving
    /\ stops = <<>>
    /\ \E order \in key_orders : shutdown_ran(cancel_all(tasks, websockets, order))

\* the task lifespan awaits has finished: lifespan runs on
ShutdownResume ==
    /\ lifespan.phase = "shutdown"
    /\ tasks[Task(Head(lifespan.todo), lifespan.at, websockets[Head(lifespan.todo)])].status # "running"
    /\ shutdown_ran(cancel_resumed(tasks, websockets, lifespan))

\* a request handler of the application with several instruments
request(A) ==
    /\ serving
    /\ A
    /\ books' = kept_books(tasks')
    /\ UNCHANGED lifespan

InitCoins ==
    /\ new_book
    /\ order_book_db = "None"
    /\ tasks = NoTasks
    /\ websockets = [c \in Instruments |-> 0]
    /\ created = [c \in Instruments |-> 0]
    /\ stops = <<>>
    /\ resp = NoResp
    /\ call = NoCall
    /\ no_requests

NextCoins ==
    \/ \E coin \in Instruments :
          request(subscribe_coin(coin)) /\ created'[coin] <= MaxStarts
    \/ \E coin \in Instruments : request(unsubscribe_coin(coin))
    \/ request(Resume)
    \/ \E t \in DOMAIN tasks : loop_runs /\ task_step(Connect(t))
    \/ \E t \in DOMAIN tasks : loop_runs /\ task_step(TransportStops(t))
    \/ \E t \in DOMAIN tasks : loop_runs /\ task_step(Subscribe(t))
    \/ \E t \in DOMAIN tasks : loop_runs /\ task_step(DeliverCancel(t))
    \/ \E t \in DOMAIN tasks : \E data \in CoinMessages : loop_runs /\ DepthDispatch(t, data)
    \/ Shutdown
    \/ ShutdownResume

SpecCoins == InitCoins /\ [][NextCoins]_vars

(***************************************************************************)
(* _consume_messages: the messages of a connection and the loop over them  *)
(***************************************************************************)
\* messages the exchange sends to the depth connector
RecvUpdateLists ==
    {<<Update("bid", "T1", "1", "1")>>,
     <<Update("offer", "T1", "2", "1")>>,
     <<Update("bid", "T1", "2", "1"), Update("offer", "T1", "2", "0")>>}

\* a depth message whose one event is of type 'snapshot'
Snapshot(seq, ts, us) ==
    [channel |-> "l2_data", sequence_num |-> seq, timestamp |-> ts,
     events |-> << [type |-> "snapshot", updates |-> us] >>]

RecvMessages ==
    {L2Message(IntSeq(n), "T1", us) : n \in 0..MaxSeq, us \in RecvUpdateLists}
    \cup {Snapshot(IntSeq(n), "T1", <<Update("bid", "T1", "2", "1")>>) : n \in 0..MaxSeq}
    \cup {L2Message(NoSeq, "T1", <<>>), OtherMessage("subscriptions")}

\* a message arrives on the open connection of the connector
Arrive(t, data) ==
    /\ running(t)
    /\ tasks[t].pc \in {"subscribing", "streaming"}
    /\ Len(arrived) < MaxArrive
    /\ arrived' = Append(arrived, data)
    /\ UNCHANGED <<varsBook, varsConn, varsApp, varsCall, wire, built, taken, varsLife>>

\* the loop handed over the newest message that arrived
next_message_newest(queue, n) == queue[Len(queue)]

\* async for message in websocket: the oldest message not handed over yet
next_message(queue, n) == queue[n + 1]

\* one iteration of the loop of _consume_messages: the next message is taken
\* and its handler is called and returns or raises
Consume(t) ==
    /\ taken < Len(arrived)
    /\ Dispatch(t, next_message(arrived, taken))
    /\ taken' = taken + 1
    /\ UNCHANGED <<varsApp, varsCall, wire, built, arrived, varsLife>>

\* the connection is lost and the connector makes a new OrderBook for the
\* next one
Disconnect_new_book(t) ==
    /\ ConnectionClosed(t)
    /\ arrived' = SubSeq(arrived, 1, taken)
    /\ bids' = NewBook.bids /\ asks' = NewBook.asks
    /\ n_levels_bid' = 0 /\ n_levels_ask' = 0
    /\ max_levels_bid' = NewBook.max_levels_bid
    /\ max_levels_ask' = NewBook.max_levels_ask
    /\ last_sequence_num' = NewBook.last_sequence_num
    /\ UNCHANGED <<order_book_db, result, msg_seq>>
    /\ UNCHANGED <<varsApp, varsCall, wire, built, taken, varsLife>>

\* the connection is lost: the messages not handed over are dropped with it
Disconnect(t) ==
    /\ ConnectionClosed(t)
    /\ arrived' = SubSeq(arrived, 1, taken)
    /\ UNCHANGED <<varsBook, varsApp, varsCall, wire, built, taken, varsLife>>

\* the depth connector of an instrument, its task just created
InitRecv ==
    /\ new_book
    /\ order_book_db = "None"
    /\ tasks = (Conn("l2") :> new_task("l2"))
    /\ no_subscriptions
    /\ call = NoCall
    /\ no_requests

NextRecv ==
    \/ Connected(ConnTask) /\ UNCHANGED <<varsBook, varsApp, varsCall, varsLife>>
    \/ Subscribed(ConnTask) /\ UNCHANGED <<varsBook, varsApp, varsCall, varsLife>>
    \/ \E data \in RecvMessages : Arrive(ConnTask, data)
    \/ Consume(ConnTask)
    \/ Disconnect(ConnTask)
    \/ Cancel(ConnTask) /\ UNCHANGED <<varsBook, varsApp, varsCall, varsWire, varsLife>>
    \/ DeliverCancel(ConnTask) /\ UNCHANGED <<varsBook, varsApp, varsCall, varsWire, varsLife>>
    \/ set_order_book_db /\ UNCHANGED <<varsConn, varsApp, varsCall, varsWire, varsLife>>

SpecRecv == InitRecv /\ [][NextRecv]_vars


(***************************************************************************)
(* Claims on the order book (SpecBook)                                     *)
(***************************************************************************)
book_rows == <<bids, asks, n_levels_bid, n_levels_ask, max_levels_bid, max_levels_ask>>

\* C1: after any sequence of consume_message calls, bids[:n_levels_bid] is
\* strictly descending by price and asks[:n_levels_ask] strictly ascending, so
\* no price occurs twice on a side.
C1_SortedUnique ==
    /\ \A i \in 1..n_levels_bid : \A j \in 1..n_levels_bid :
          i < j => bids[i][1] > bids[j][1]
    /\ \A i \in 1..n_levels_ask : \A j \in 1..n_levels_ask :
          i < j => asks[i][1] < asks[j][1]

\* C2: with last_sequence_num = N, a message with sequence_num < N is dropped:
\* levels, n_levels, capacities and last_sequence_num are unchanged and nothing
\* is handed to the order_book sink; a message with sequence_num >= N passes
\* the gate, last_sequence_num becomes its sequence_num and, unless parsing it
\* raises, its deltas are applied.
C2_SequenceGating ==
    [][msg_seq'.tag = "int" =>
        /\ msg_seq'.val < last_sequence_num =>
              /\ result' = "dropped"
              /\ book_rows' = book_rows
              /\ last_sequence_num' = last_sequence_num
              /\ ~handed'
        /\ msg_seq'.val >= last_sequence_num =>
              /\ last_sequence_num' = msg_seq'.val
              /\ (applied' \/ result' \in {"KeyError", "ValueError"})]_vars

\* a message was dropped by the gate of a book that holds levels
C2_Witness ==
    /\ result = "dropped"
    /\ msg_seq.val < last_sequence_num
    /\ n_levels_bid + n_levels_ask > 0

\* C3 as stated: once a message has been applied, a delivery whose
\* sequence_num is less than or equal to that message's (and that parses) is
\* dropped, changes nothing and hands no record to the sink.
C3_StrictlyIncreasing ==
    [][(/\ applied /\ msg_seq.tag = "int"
        /\ msg_seq'.tag = "int" /\ msg_seq'.val <= msg_seq.val
        /\ result' \notin {"KeyError", "ValueError"}) =>
        /\ result' = "dropped"
        /\ book_rows' = book_rows
        /\ ~handed']_vars

\* C3 amended: the sequence numbers of accepted messages never decrease; a
\* delivery with a smaller sequence_num than the last accepted one is dropped
\* and changes nothing, one with an equal sequence_num is not dropped.
C3_NonDecreasing ==
    [][/\ last_sequence_num' >= last_sequence_num
       /\ msg_seq'.tag = "int" =>
            /\ applied' => msg_seq'.val >= last_sequence_num
            /\ msg_seq'.val < last_sequence_num =>
                  (result' = "dropped" /\ book_rows' = book_rows /\ ~handed')
            /\ msg_seq'.val = last_sequence_num => result' # "dropped"]_vars

\* more levels than one message carries, all from messages numbered 0: a
\* delivery with the sequence_num of its predecessor was applied
C3_Witness ==
    /\ last_sequence_num = 0
    /\ applied
    /\ n_levels_bid + n_levels_ask > MaxUpdates

(***************************************************************************)
(* Claims on the lifecycle manager (SpecApp)                               *)
(***************************************************************************)
\* a stop for coin writes its response in this step
stop_returns(coin) == resp'.op = "stop" /\ resp'.coin = coin

\* C4: when a stop for an instrument present in the bookkeeping returns,
\* whatever the state of its two tasks, both tasks have finished, the entry is
\* removed, list() does not hold the instrument, status gives not-found and a
\* new start is not a conflict.
C4_StopRemoves ==
    [][\A c \in Coins :
          (websockets[c] # 0 /\ stop_returns(c)) =>
              /\ \A k \in {"main", "l2"} :
                    tasks[Task(c, k, websockets[c])].status # "running"
              /\ websockets'[c] = 0
              /\ (c \notin list_coins)'
              /\ (coin_status(c).code = 404)'
              /\ (~conflict(c))']_vars

\* C5: a stop request ends with ok or not-found, also when none of the tasks
\* has failed and two stop requests for the instrument overlap.
C5_StopNeverFails ==
    [][\A c \in Coins :
          (stop_returns(c) /\ \A t \in DOMAIN tasks : tasks[t].status # "failed") =>
              resp'.code \in {200, 404}]_vars

\* C6: a start request for an instrument that is in the bookkeeping ends with
\* 409 and changes nothing: no task is created, the entry, its tasks and the
\* suspended stops are as before.
C6_ConflictNoEffect ==
    [][\A c \in Coins :
          (websockets[c] # 0 /\ resp'.op = "start" /\ resp'.coin = c) =>
              /\ resp'.code = 409
              /\ UNCHANGED <<tasks, websockets, created, stops, varsBook>>]_vars

\* a start was rejected while a stop for the instrument awaits a task
C6_Witness ==
    \E c \in Coins :
        /\ resp = Resp("start", c, 409)
        /\ \E i \in DOMAIN stops : stops[i].coin = c

\* the report the priority order running, cancelled, failed, done gives
reported(task, s) ==
    /\ s \in {"running", "cancelled", "failed", "done"}
    /\ s = "running" <=> ~done(task)
    /\ done(task) => (s = "cancelled" <=> cancelled(task))
    /\ (done(task) /\ ~cancelled(task)) => (s = "failed" <=> exception(task) # "None")

\* C12: _task_status gives exactly one of running, cancelled, failed, done, in
\* that priority order, for every task; status(instrument) reports it for the
\* main and the l2 task of the entry, each on its own, and gives not-found for
\* an instrument that is absent.
C12_StatusReport ==
    /\ \A t \in DOMAIN tasks : reported(tasks[t], task_status(tasks[t]))
    /\ \A c \in Coins :
          IF websockets[c] = 0 THEN coin_status(c) = [code |-> 404]
          ELSE /\ coin_status(c).code = 200
               /\ reported(tasks[Task(c, "main", websockets[c])], coin_status(c).main)
               /\ reported(tasks[Task(c, "l2", websockets[c])], coin_status(c).l2)

\* status reports a cancelled main task next to an l2 task that still runs
C12_Witness ==
    \E c \in Coins :
        /\ websockets[c] # 0
        /\ coin_status(c).main = "cancelled"
        /\ coin_status(c).l2 = "running"

(***************************************************************************)
(* Claims on the connector (SpecConn)                                      *)
(***************************************************************************)
DispatchOf(t, S) == \E data \in S : Dispatch(t, data)

\* C7: when the handler of a message raises SchemaError, Invalid or
\* IngressError, the exception is caught: the connector task keeps running on
\* the same connection and waits for the next message.
C7_ErrorContained ==
    [][\A t \in DOMAIN tasks :
          (DispatchOf(t, ConnMessages) /\ tasks'[t].handled \in Caught) =>
              /\ tasks'[t].status = "running"
              /\ tasks'[t].pc = "streaming"
              /\ ~tasks'[t].cancel
              /\ tasks'[t].sent = tasks[t].sent]_vars

\* a sink ingestion failure was caught and the connector still streams
C7_Witness ==
    \E t \in DOMAIN tasks :
        /\ tasks[t].handled = "IngressError"
        /\ tasks[t].status = "running"
        /\ tasks[t].pc = "streaming"

\* C8: a depth message with a missing or unparsable timestamp, event_time,
\* price_level, new_quantity or sequence_num is dropped: the connector task
\* keeps running and waits for the next message.
C8_MalformedDropped ==
    [][\A t \in DOMAIN tasks :
          (owns_book(tasks[t].kind) /\ DispatchOf(t, MalformedL2)) =>
              /\ tasks'[t].status = "running"
              /\ tasks'[t].pc = "streaming"]_vars

\* C9: when the connection is lost while the connector sends its subscribe
\* requests or streams, and no cancellation is pending, the task keeps running
\* and goes on to take the next connection from the transport.
C9_Reconnects ==
    [][\A t \in DOMAIN tasks :
          (SubscribeClosed(t) \/ ConnectionClosed(t)) =>
              /\ tasks'[t].status = "running"
              /\ tasks'[t].pc = "connecting"]_vars

cancel_pending(t) == t \in DOMAIN tasks /\ tasks[t].cancel

has_ended(t) == t \in DOMAIN tasks /\ tasks[t].pc = "ended"

\* C10: once a cancellation has been requested, the only step of the connector
\* is the one that ends it (no connection, no subscribe request, no dispatch,
\* no change of the book), the task stays ended, and the request does end it.
C10_CancelTerminal ==
    /\ [][\A t \in DOMAIN tasks :
            (tasks[t].cancel /\ tasks'[t] # tasks[t]) =>
                /\ tasks[t].status = "running"
                /\ tasks'[t].pc = "ended"
                /\ tasks'[t].status \in {"cancelled", "done"}
                /\ tasks'[t].cancel
                /\ tasks'[t].sent = tasks[t].sent
                /\ tasks'[t].handled = tasks[t].handled
                /\ book_rows' = book_rows
                /\ last_sequence_num' = last_sequence_num]_vars
    /\ \A kind \in {"main", "l2"} :
          cancel_pending(Conn(kind)) ~> has_ended(Conn(kind))

\* a connector that had dispatched messages was cancelled and has ended
C10_Witness ==
    \E t \in DOMAIN tasks :
        /\ tasks[t].cancel
        /\ tasks[t].pc = "ended"
        /\ tasks[t].handled # "none"

\* C11: a connector task that has finished because it was cancelled, whether
\* it was connecting, subscribing or streaming then, is reported by
\* _task_status as cancelled.
C11_CancelledReported ==
    \A t \in DOMAIN tasks :
        (tasks[t].cancel /\ tasks[t].pc = "ended") =>
            task_status(tasks[t]) = "cancelled"

\* depth messages with every field present and parsable and at least one update
WellFormedL2 ==
    {L2Message(IntSeq(n), "T1", us) : n \in 0..MaxSeq, us \in ConnUpdateLists \ {<<>>}}

\* C13: in the application as lifespan startup wires it, every depth message
\* that passes the sequence gate of the l2 connector's book hands a record to
\* the order_book sink, and the l2 connector task keeps running afterwards.
C13_RecordHanded ==
    [][\A t \in DOMAIN tasks :
          (/\ owns_book(tasks[t].kind)
           /\ \E data \in WellFormedL2 :
                 /\ Dispatch(t, data)
                 /\ ~stale(data.sequence_num.val, last_sequence_num)) =>
              /\ handed'
              /\ tasks'[t].status = "running"
              /\ tasks'[t].pc = "streaming"]_vars

\* C14: for a depth message dispatched by a connector that owns a book, the
\* level2 table handler is called after consume_message whatever the
\* order-book step ended with: applied, dropped as stale, or an ingestion
\* error of the order_book sink.
C14_Level2Always ==
    [][\A t \in DOMAIN tasks :
          (/\ owns_book(tasks[t].kind)
           /\ DispatchOf(t, WellFormedL2)
           /\ result' \in {"ok", "dropped", "IngressError"}) =>
              tasks'[t].level2]_vars

\* the first n rows are in strict price order, descending or ascending
strictly_sorted(rows, n, desc) ==
    \A i \in 1..n : \A j \in 1..n :
        i < j => (IF desc THEN rows[i][1] > rows[j][1] ELSE rows[i][1] < rows[j][1])

\* C15: when the order_book sink raises an ingestion error, consume_message
\* raises it, the book holds the applied deltas of the message (each side
\* strictly sorted, no price twice, n_levels within the capacity),
\* last_sequence_num is the message's sequence_num, and a following message
\* with a higher sequence number that parses is applied.
C15_SinkErrorKeepsBook ==
    [][/\ result' = "IngressError" =>
            /\ strictly_sorted(bids', n_levels_bid', TRUE)
            /\ strictly_sorted(asks', n_levels_ask', FALSE)
            /\ n_levels_bid' <= max_levels_bid' /\ Len(bids') = max_levels_bid'
            /\ n_levels_ask' <= max_levels_ask' /\ Len(asks') = max_levels_ask'
            /\ last_sequence_num' = msg_seq'.val
       /\ (/\ result = "IngressError"
           /\ msg_seq'.tag = "int" /\ msg_seq'.val > msg_seq.val
           /\ result' \notin {"KeyError", "ValueError"}) =>
            (applied' /\ last_sequence_num' = msg_seq'.val)]_vars

\* the prices stored on the side an update is for
side_prices(u) ==
    IF u.side = "bid" THEN prices(SubSeq(bids, 1, n_levels_bid))
    ELSE prices(SubSeq(asks, 1, n_levels_ask))

\* messages whose one update has quantity 0 for a price the side does not hold
AbsentDeletes ==
    {data \in GoodMessages :
        LET us == flatten(data.events)
        IN  /\ Len(us) = 1
            /\ Float64(us[1].new_quantity) = 0
            /\ Float64(us[1].price_level) \notin side_prices(us[1])}

\* C16: in every reachable book state, applying a delta with quantity 0 for a
\* price not present on its side changes nothing: levels, n_levels, max_levels
\* and the arrays of both sides are as before.
C16_DeleteAbsentNoOp ==
    [][\A data \in AbsentDeletes :
          (consume_message(data) /\ applied') => book_rows' = book_rows]_vars

\* the occupied prefix of a side
levels(side) ==
    IF side = "bid" THEN SubSeq(bids, 1, n_levels_bid)
    ELSE SubSeq(asks, 1, n_levels_ask)

\* messages whose one update has a positive quantity for a price the side holds
PresentUpserts ==
    {data \in GoodMessages :
        LET us == flatten(data.events)
        IN  /\ Len(us) = 1
            /\ Float64(us[1].new_quantity) > 0
            /\ Float64(us[1].price_level) \in side_prices(us[1])}

\* C17: an upsert for a price a side already holds replaces the quantity of
\* that level: the side has as many levels as before, one level with that
\* price, holding the new quantity, and every other level as before.
C17_UpsertReplaces ==
    [][\A data \in PresentUpserts :
          (consume_message(data) /\ applied') =>
              LET u == flatten(data.events)[1]
                  p == Float64(u.price_level)
                  before == levels(u.side)
                  after == levels(u.side)'
              IN  /\ Len(after) = Len(before)
                  /\ Cardinality({i \in DOMAIN after : after[i][1] = p}) = 1
                  /\ \A i \in DOMAIN after :
                        after[i][1] = p => after[i][2] = Float64(u.new_quantity)
                  /\ SelectSeq(after, LAMBDA r : r[1] # p)
                        = SelectSeq(before, LAMBDA r : r[1] # p)]_vars

(***************************************************************************)
(* Claims on the functions called on their own (SpecCall)                  *)
(***************************************************************************)
returned(fn) == call.fn = fn /\ call.returned

\* the update entries of the parsed message for a side and a float price
targeting(side, p) ==
    LET us == flatten(call.arg.events)
    IN  {i \in DOMAIN us : us[i].side = side /\ Float64(us[i].price_level) = p}

\* C18: when two or more updates of one message target the same side and
\* price with event times that all differ, in one event or in two, the
\* quantity _parse_data passes on for that price is that of the update with
\* the latest event_time, wherever the updates stand.
C18_LatestWins ==
    (returned("parse_data") /\ call.out.exc = "none") =>
        \A side \in {"bid", "offer"} : \A p \in {1, 2} :
            LET us == flatten(call.arg.events)
                idx == targeting(side, p)
                time(i) == Timestamp(us[i].event_time)
                rows == IF side = "bid" THEN call.out.bids ELSE call.out.asks
            IN  (/\ Cardinality(idx) >= 2
                 /\ \A i \in idx : \A j \in idx : i # j => time(i) # time(j)) =>
                    LET last == CHOOSE i \in idx : \A j \in idx : time(j) <= time(i)
                    IN  {rows[k][2] : k \in {k \in DOMAIN rows : rows[k][1] = p}}
                            = {Float64(us[last].new_quantity)}

\* C19: _ensure_capacity(arr, L, C) returns arr and C when L < C; when L >= C
\* it returns the capacity max(2C, _round_up(L)) and an array of that many
\* rows whose first C rows are those of arr and whose other rows are zero.
C19_EnsureCapacity ==
    returned("ensure_capacity") =>
        LET arr == call.arg.arr
            L == call.arg.n_levels
            C == call.arg.max_levels
            new_arr == call.out[1]
            new_max == call.out[2]
        IN  IF L < C THEN new_arr = arr /\ new_max = C
            ELSE /\ new_max = Max(2 * C, round_up(L))
                 /\ Len(new_arr) = new_max
                 /\ \A i \in 1..C : new_arr[i] = arr[i]
                 /\ \A i \in (C + 1)..new_max : new_arr[i] = ZeroRow

\* a full array of levels grew to _round_up(L), more than twice its capacity
C19_Witness ==
    /\ returned("ensure_capacity")
    /\ call.arg.n_levels >= call.arg.max_levels
    /\ call.out[2] > 2 * call.arg.max_levels
    /\ \E i \in DOMAIN call.arg.arr : call.arg.arr[i] # ZeroRow

PowersOfTen == {10^k : k \in 0..6}

\* 10^floor(log10 n), n > 0
power_below(n) == CHOOSE m \in PowersOfTen : m <= n /\ n < 10 * m

\* C20: _round_up(n) is 0 for n <= 0 and, for n > 0, the smallest multiple of
\* 10^floor(log10 n) that is >= n; 2701, 2100 and 2001 give 3000, 1000 gives
\* 1000, 4207 gives 5000; n <= _round_up(n) for n >= 0.
C20_RoundUp ==
    returned("round_up") =>
        LET n == call.arg
            r == call.out
        IN  /\ n <= 0 => r = 0
            /\ n > 0 => /\ r % power_below(n) = 0
                        /\ r >= n
                        /\ r - power_below(n) < n
            /\ n >= 0 => n <= r
            /\ n \in {2701, 2100, 2001} => r = 3000
            /\ n = 1000 => r = 1000
            /\ n = 4207 => r = 5000

\* _round_up returned for an n that is a multiple of its magnitude already
C20_Witness ==
    /\ returned("round_up")
    /\ call.arg = 1000
    /\ call.out = 1000

\* the columns the table declares: its own, its symbol columns and the time
\* column
required_columns(table) ==
    DOMAIN table_schema(table) \cup symbs(table) \cup {"timestamp"}

\* the declared columns the record lacks or holds a value of the wrong type for
defective(table, data) ==
    {k \in required_columns(table) :
        \/ k \notin DOMAIN data
        \/ ~validated(vol_schema(table)[k].validator, data[k]).ok}

\* C21: validate on a record fails with a schema violation whenever a
\* required column (a table-specific column, a symbol column or the time
\* column) is missing or not coercible to its type; validate returns no record
\* that lacks a required column, so no such record reaches the rest of insert.
C21_RequiredColumns ==
    returned("insert") =>
        /\ defective(call.arg.table, call.arg.data) # {} => call.out.exc = "Invalid"
        /\ call.out.passed =>
              required_columns(call.arg.table) \subseteq call.out.validated

(***************************************************************************)
(* Claims on the requests a connector sends (SpecConn)                     *)
(***************************************************************************)
\* the requests sent on the connection the connector holds
current == wire[Len(wire)]

\* the requests are one subscribe request per channel of the connector, in
\* the order of its channel list, each for the connector's coin and signed
subscribed_in_order(t, requests) ==
    /\ Len(requests) = Len(Channels(tasks[t].kind))
    /\ \A i \in DOMAIN requests :
          /\ requests[i].type = "subscribe"
          /\ requests[i].channel = Channels(tasks[t].kind)[i]
          /\ requests[i].product_ids = <<t[1]>>
          /\ requests[i].jwt \in {build_jwt(n) : n \in 1..built}

\* C22: on every connection the connector takes, the first and every later
\* one, a message is dispatched only after exactly one signed subscribe
\* request per configured channel has been sent on that connection, in the
\* configured order.
C22_SubscribeFirst ==
    [][\A t \in DOMAIN tasks :
          DispatchOf(t, ConnMessages) => subscribed_in_order(t, current)]_vars

\* the connector streams on its second connection, its requests sent again
C22_Witness ==
    \E t \in DOMAIN tasks :
        /\ Len(wire) = 2
        /\ tasks[t].pc = "streaming"
        /\ tasks[t].handled # "none"
        /\ Len(wire[1]) = Len(Channels(tasks[t].kind))
        /\ Len(wire[2]) = Len(Channels(tasks[t].kind))

\* messages whose channel tag is absent or has no handler registered
Unregistered == {OtherMessage(ch) : ch \in {"heartbeats", "subscriptions", Absent}}

\* C23: a message whose channel tag is absent or has no registered handler is
\* ignored: no table handler and no order-book operation is called, the book
\* and what was handed to the sinks are unchanged, no error is raised, and the
\* connector keeps streaming on the connection and dispatches the next message.
C23_UnregisteredIgnored ==
    [][\A t \in DOMAIN tasks :
          DispatchOf(t, Unregistered) =>
              /\ tasks'[t] = [tasks[t] EXCEPT !.handler = "no_op", !.handled = "ok",
                                              !.level2 = FALSE]
              /\ UNCHANGED <<varsBook, varsWire>>
              /\ running(t)' /\ tasks'[t].pc = "streaming"]_vars

\* a depth connector whose book holds levels has ignored a message
C23_Witness ==
    \E t \in DOMAIN tasks :
        /\ owns_book(tasks[t].kind)
        /\ tasks[t].handler = "no_op"
        /\ tasks[t].handled = "ok"
        /\ tasks[t].pc = "streaming"
        /\ n_levels_bid > 0

(***************************************************************************)
(* Claims on the bookkeeping (SpecApp)                                     *)
(***************************************************************************)
\* the tasks of the entry that start request g created for coin
entry_tasks(coin, g) == {t \in DOMAIN tasks : t[1] = coin /\ t[3] = g}

\* a task that has not finished
live(t) == tasks[t].status = "running"

stop_runs(coin) ==
    \/ websockets[coin] # 0 /\ unsubscribe_coin(coin)
    \/ Resume /\ stops[CHOOSE i \in ready : \A j \in ready : i <= j].coin = coin

\* the entry, the tasks and the book of every instrument but coin are in the
\* next state as they are in this one
others_unchanged(coin) ==
    \A d \in Instruments \ {coin} :
        /\ websockets'[d] = websockets[d]
        /\ \A t \in DOMAIN tasks :
              t[1] = d => (t \in DOMAIN tasks' /\ tasks'[t] = tasks[t])
        /\ \A t \in DOMAIN books :
              t[1] = d => (t \in DOMAIN books' /\ books'[t] = books[t])

\* C25: a stop of one instrument changes nothing of another instrument: the
\* other's entry, its two tasks (which keep running if they ran) and its order
\* book, levels and last_sequence_num, are as before; and a depth message
\* dispatched by one instrument's connector changes no other book.
C25_StopIsolated ==
    [][/\ \A c \in Instruments : stop_runs(c) => others_unchanged(c)
       /\ \A t \in DOMAIN tasks :
             (\E data \in CoinMessages : DepthDispatch(t, data)) =>
                 \A u \in DOMAIN books \ {t} : u \in DOMAIN books' /\ books'[u] = books[u]]_vars

\* one instrument was stopped while the other's connectors stream and the
\* other's book holds a level
C25_Witness ==
    \E c \in Instruments : \E d \in Instruments \ {c} :
        /\ resp = Resp("stop", c, 200)
        /\ websockets[c] = 0
        /\ websockets[d] # 0
        /\ tasks[Task(d, "main", websockets[d])].pc = "streaming"
        /\ live(Task(d, "main", websockets[d]))
        /\ books[Task(d, "l2", websockets[d])].n_levels_bid > 0

\* C26: when the shutdown has run, whatever state the tasks were in when it
\* began, every connector task of every subscribed instrument has been
\* cancelled and has finished, the bookkeeping is empty and Base.close has
\* been reached.
C26_ShutdownCancelsAll ==
    lifespan.phase \in {"closed", "raised"} =>
        /\ lifespan.phase = "closed"
        /\ \A c \in Instruments : websockets[c] = 0
        /\ \A t \in DOMAIN tasks : ~live(t)

\* C27: every token _build_jwt builds has nbf equal to the time at signing
\* and exp = nbf + 120 exactly, however far the clock advances between the
\* reading for nbf and the reading for exp.
C27_TokenTimes ==
    returned("build_jwt") =>
        /\ call.out.nbf = seconds(call.arg.clock)
        /\ call.out.exp = call.out.nbf + Validity

\* every request sent so far, over all connections, in the order of sending
RECURSIVE all_requests(_)
all_requests(w) == IF w = <<>> THEN <<>> ELSE Head(w) \o all_requests(Tail(w))

\* C28: every subscribe or unsubscribe request carries the token of a
\* _build_jwt call made for that request in the step that sends it; the
\* connector keeps no token, and no token goes out in two requests, neither on
\* one connection nor across reconnects.
C28_FreshToken ==
    /\ [][\A t \in DOMAIN tasks :
            Subscribed(t) =>
                LET req == current'[Len(current')]
                    before == all_requests(wire)
                IN  /\ built' = built + 1
                    /\ req.jwt = build_jwt(built')
                    /\ \A i \in DOMAIN before : before[i].jwt # req.jwt]_vars
    /\ [](LET sent == all_requests(wire)
          IN  /\ \A i \in DOMAIN sent : \A j \in DOMAIN sent :
                    i # j => sent[i].jwt # sent[j].jwt
              /\ \A t \in DOMAIN tasks : \A i \in DOMAIN Channels(tasks[t].kind) :
                    LET req == sign_with_jwt(
                            unsubscribe_message(t[1], Channels(tasks[t].kind)[i]), built)
                    IN  /\ req.jwt = build_jwt(built + 1)
                        /\ \A j \in DOMAIN sent : sent[j].jwt # req.jwt)

\* the main connector has sent its three requests on each of two connections,
\* with six tokens built
C28_Witness ==
    /\ Len(wire) = 2
    /\ Len(wire[1]) = 3
    /\ Len(wire[2]) = 3
    /\ built = 6

(***************************************************************************)
(* Claims on the order of a connector's steps (SpecConn).  A state of the  *)
(* connector is a point at which its task is suspended: at the connect, at *)
(* a send, at the receive, or ended.                                       *)
(***************************************************************************)
\* the step stores, on both sides, what _update_book makes of the deltas of
\* the message data and of the book before the step
fully_applied(data) ==
    LET p == parse_data(data)
    IN  /\ p.exc = "none"
        /\ \E nb \in update_side(bids, n_levels_bid, max_levels_bid, p.bids, TRUE) :
              bids' = nb.arr /\ n_levels_bid' = nb.n /\ max_levels_bid' = nb.max
        /\ \E na \in update_side(asks, n_levels_ask, max_levels_ask, p.asks, FALSE) :
              asks' = na.arr /\ n_levels_ask' = na.n /\ max_levels_ask' = na.max

\* C29: from one suspension point of a depth connector to the next (receive,
\* send, delivery of a cancellation) the book is either left as it is or
\* holds one more message applied in full, bid and ask deltas both; at every
\* such point n_levels of a side is within the rows the side stores.
C29_NoPartialApplication ==
    /\ [][\A t \in DOMAIN tasks :
            /\ \A data \in ConnMessages :
                  Dispatch(t, data) => (book_rows' = book_rows \/ fully_applied(data))
            /\ ~DispatchOf(t, ConnMessages) => book_rows' = book_rows]_vars
    /\ [](/\ n_levels_bid <= max_levels_bid /\ Len(bids) = max_levels_bid
          /\ n_levels_ask <= max_levels_ask /\ Len(asks) = max_levels_ask)

\* a depth connector was cancelled after a message with bid and ask deltas:
\* it has ended and its book holds levels on both sides
C29_Witness ==
    \E t \in DOMAIN tasks :
        /\ owns_book(tasks[t].kind)
        /\ tasks[t].cancel
        /\ tasks[t].pc = "ended"
        /\ n_levels_bid > 0
        /\ n_levels_ask > 0
        /\ last_sequence_num = 0

\* the books a book can become when the handler of the message is run on it
handled_books(book, data) ==
    IF channel_to_table(data.channel) = "_level2"
    THEN {o.book : o \in consumed(book, "None", data) \cup consumed(book, "sink", data)}
    ELSE {book}

\* the books left by running the handlers of the messages one after the
\* other, each on the book the one before left
RECURSIVE books_after(_, _)
books_after(bs, messages) ==
    IF messages = <<>> THEN bs
    ELSE books_after(UNION {handled_books(b, Head(messages)) : b \in bs}, Tail(messages))

\* C30: a connector takes the messages of its connection one at a time in
\* the order they arrived, the handler of one has returned or raised before
\* the next is taken, and after a handler raised out of the loop none is
\* taken; the book is what the handlers of the messages taken so far leave
\* when run one after the other in the order of arrival.
C30_ReceiveOrder ==
    /\ [][LET one_at_a_time ==
                  (taken' # taken) =>
                      /\ taken' = taken + 1
                      /\ Dispatch(ConnTask, arrived[taken'])
                      /\ \/ tasks'[ConnTask].handled \in {"ok", "dropped"} \cup Caught
                         \/ tasks'[ConnTask].pc = "ended"
              none_after_end == (tasks[ConnTask].pc = "ended") => (taken' = taken)
          IN  one_at_a_time /\ none_after_end]_vars
    /\ [](/\ taken <= Len(arrived)
          /\ self_book \in books_after({NewBook}, SubSeq(arrived, 1, taken)))

\* two depth messages were handled and a later one has arrived: the first
\* gave the book its ask level, the second carried an older sequence number
C30_Witness ==
    /\ taken = 2
    /\ Len(arrived) = 3
    /\ arrived[1].sequence_num = IntSeq(1)
    /\ arrived[2].sequence_num = IntSeq(0)
    /\ n_levels_ask = 1
    /\ n_levels_bid = 0
    /\ tasks[ConnTask].pc = "streaming"

(***************************************************************************)
(* db: the handlers of the tables, Base.__call__ and its overrides in      *)
(* Level2 and Ticker, called on a message.  An event of candles,           *)
(* market_trades and ticker is its type and its sub-items; a sub-item is   *)
(* "good", "invalid" (a value its column's validator rejects) or           *)
(* "malformed" (a key missing that update() reads).                        *)
(***************************************************************************)
\* a column of the table that holds a number
number_column(table) == IF table = "candles" THEN "low" ELSE "price"

\* the record update() yields for a sub-item
yielded(table, item) ==
    IF item = "good" THEN Record(table, {}, {})
    ELSE Record(table, {}, {number_column(table)})

\* a call of ingest or insert: the event and the sub-item it was made for and
\* whether the sender took the data
SinkCall(op, e, i, handed_over) == [op |-> op, event |-> e, item |-> i, handed |-> handed_over]

\* for update in self.update(event_data): self.insert(update), from sub-item
\* i on: the calls made and the exception that ended the loop, if any
RECURSIVE inserts(_, _, _, _)
inserts(table, e, items, i) ==
    IF i > Len(items) THEN {[calls |-> <<>>, exc |-> "none"]}
    ELSE IF items[i] = "malformed" THEN {[calls |-> <<>>, exc |-> "KeyError"]}
    ELSE UNION {
           LET c == SinkCall("insert", e, i, o.exc = "none")
           IN  IF o.exc # "none" THEN {[calls |-> <<c>>, exc |-> o.exc]}
               ELSE {[calls |-> <<c>> \o r.calls, exc |-> r.exc] :
                        r \in inserts(table, e, items, i + 1)}
           : o \in insert(table, yielded(table, items[i]))}

\* df = self.snapshot(event_data); self.ingest(df) of candles and
\* market_trades: the DataFrame of no rows has no columns, so snapshot raises
\* on it as on a row without the key it reads
batch(table, e, items) ==
    IF items = <<>> \/ \E i \in DOMAIN items : items[i] = "malformed"
    THEN {[calls |-> <<>>, exc |-> "KeyError"]}
    ELSE IF \E i \in DOMAIN items : items[i] = "invalid"
    THEN {[calls |-> <<SinkCall("ingest", e, 0, FALSE)>>, exc |-> "SchemaError"]}
    ELSE {[calls |-> <<SinkCall("ingest", e, 0, TRUE)>>, exc |-> "none"],
          [calls |-> <<SinkCall("ingest", e, 0, FALSE)>>, exc |-> "IngressError"]}

\* Level2.__call__ on one event
level2_batch(ts, e, event) ==
    {[calls |-> IF r \in {"KeyError", "ValueError"} THEN <<>>
                ELSE <<SinkCall("ingest", e, 0, r = "ok")>>,
      exc |-> IF r = "ok" THEN "none" ELSE r] :
        r \in level2_event(ts, event.updates)}

\* the body of the loop of Base.__call__ without the test of the event type
base_event_any_type(table, e, event) == inserts(table, e, event.items, 1)

\* the body of the loop of Base.__call__: the branch on event['type']
base_event(table, e, event) ==
    IF event.type = "snapshot" THEN batch(table, e, event.items)
    ELSE IF event.type = "update" THEN inserts(table, e, event.items, 1)
    ELSE {[calls |-> <<>>, exc |-> "none"]}

\* the body of the loop over data['events'] of the table's __call__
event_calls(table, ts, e, event) ==
    IF table = "level2" THEN level2_batch(ts, e, event)
    ELSE IF table = "ticker" THEN inserts(table, e, event.items, 1)
    ELSE base_event(table, e, event)

\* the handler going on with the next event after an event that raised
RECURSIVE handler_from_continue(_, _, _)
handler_from_continue(table, data, e) ==
    IF e > Len(data.events) THEN {[calls |-> <<>>, exc |-> "none"]}
    ELSE UNION {
           {[calls |-> o.calls \o r.calls,
             exc |-> IF o.exc # "none" THEN o.exc ELSE r.exc] :
                r \in handler_from_continue(table, data, e + 1)}
           : o \in event_calls(table, data.timestamp, e, data.events[e])}

\* the handler picked up at event e after the calls made so far
RECURSIVE handler_from(_, _, _)
handler_from(table, data, e) ==
    IF e > Len(data.events) THEN {[calls |-> <<>>, exc |-> "none"]}
    ELSE UNION {
           IF o.exc # "none" THEN {o}
           ELSE {[calls |-> o.calls \o r.calls, exc |-> r.exc] :
                    r \in handler_from(table, data, e + 1)}
           : o \in event_calls(table, data.timestamp, e, data.events[e])}

\* __call__ of a table on a message: every way the call can end, as the
\* calls of ingest and insert it made and the exception it raised
handler_calls(table, data) == handler_from(table, data, 1)

Tables == {"candles", "market_trades", "ticker", "level2"}

\* the sub-items of an event
ItemLists ==
    {<<>>, <<"good">>, <<"good", "good">>, <<"invalid", "good">>,
     <<"good", "invalid">>, <<"good", "malformed">>, <<"malformed", "good">>}

\* the update entries of a level2 event
Level2Lists ==
    {<<>>,
     <<Update("bid", "T1", "1", "1")>>,
     <<Update("bid", "T1", "1", "1"), Update("offer", "T1", "2", "1")>>,
     <<Update("bid", "T1", Garbage, "1")>>}

\* events of a message for the table
TableEvents(table) ==
    IF table = "level2"
    THEN {[type |-> t, updates |-> us] : t \in {"snapshot", "update"}, us \in Level2Lists}
    ELSE {[type |-> t, items |-> l] : t \in {"snapshot", "update", "heartbeat"}, l \in ItemLists}

HandlerArg(table, events) ==
    [table |-> table, data |-> [timestamp |-> "T1", events |-> events]]

\* a table handler called on a message
InitSink ==
    /\ new_book
    /\ order_book_db = "sink"
    /\ tasks = NoTasks
    /\ no_subscriptions
    /\ no_requests
    /\ \E table \in Tables : \E events \in SeqsUpTo(TableEvents(table), MaxEvents) :
          call = Call("handler", HandlerArg(table, events))

Handler ==
    /\ call.fn = "handler"
    /\ \E out \in handler_calls(call.arg.table, call.arg.data) : returns(out)

NextSink == Handler

SpecSink == InitSink /\ [][NextSink]_vars

(***************************************************************************)
(* Claims on the deltas of one message (SpecCall)                          *)
(***************************************************************************)
\* the update entries of a message, over all its events
entries(data) == flatten(data.events)

\* the message with its update entries in the order p, the events keeping
\* their sizes
reordered(data, p) ==
    LET us == entries(data)
        vs == [i \in DOMAIN us |-> us[p[i]]]
        k == Len(data.events[1].updates)
    IN  IF Len(data.events) = 1 THEN L2Message(data.sequence_num, data.timestamp, vs)
        ELSE TwoEvents(vs, k)

\* C31: for every order of the update entries of a message, within and
\* across its events, _parse_data followed by _update_book leaves the bids
\* and asks it leaves for the order received.
C31_OrderIndependent ==
    (call.fn = "update_book" /\ call.returned) =>
        \A p \in Permutations(DOMAIN entries(call.arg)) :
            \A o \in parsed_and_updated(NewBook, reordered(call.arg, p)) :
                /\ o.book.bids = call.out.book.bids
                /\ o.book.asks = call.out.book.asks
                /\ o.book.n_levels_bid = call.out.book.n_levels_bid
                /\ o.book.n_levels_ask = call.out.book.n_levels_ask

(***************************************************************************)
(* Claims on the book as a map from price to quantity (SpecBook)           *)
(***************************************************************************)
\* the <<price, quantity>> pairs of the occupied prefix of a side
level_map(arr, n) == {arr[i] : i \in 1..n}

\* the abstract side after a message: every price of a resolved delta is
\* removed, and set to q for every resolved delta <<p, q>> with q > 0
folded(m, deltas) ==
    {r \in m : r[1] \notin prices(deltas)}
    \cup {deltas[i] : i \in {j \in DOMAIN deltas : deltas[j][2] > 0}}

\* the stored prefix is exactly the map m in price order
stores_map(arr, n, m, desc) ==
    /\ level_map(arr, n) = m
    /\ n = Cardinality(m)
    /\ \A r1 \in m : \A r2 \in m : r1[1] = r2[1] => r1 = r2
    /\ \A i \in 1..n : \A j \in 1..n :
          i < j => IF desc THEN arr[i][1] > arr[j][1] ELSE arr[i][1] < arr[j][1]

\* C32: each side of the book is a map from price to quantity stored in price
\* order (bids descending, asks ascending), empty at first; a message that is
\* applied removes the price of each of its resolved deltas and sets the price
\* to q for each resolved delta with q > 0, and any other message leaves the
\* map as it is.
C32_AbstractBook ==
    [][\A data \in BookMessages :
          consume_message(data) =>
              IF applied'
              THEN LET p == parse_data(data)
                   IN  /\ stores_map(bids', n_levels_bid',
                                     folded(level_map(bids, n_levels_bid), p.bids), TRUE)
                       /\ stores_map(asks', n_levels_ask',
                                     folded(level_map(asks, n_levels_ask), p.asks), FALSE)
              ELSE /\ level_map(bids', n_levels_bid') = level_map(bids, n_levels_bid)
                   /\ level_map(asks', n_levels_ask') = level_map(asks, n_levels_ask)]_vars

\* C33: in every reachable state every level of the occupied prefix of
\* either side has a quantity greater than 0: a delta whose quantity is not
\* greater than 0 deletes its price and is not stored.
C33_PositiveQuantities ==
    /\ \A i \in 1..n_levels_bid : bids[i][2] > 0
    /\ \A i \in 1..n_levels_ask : asks[i][2] > 0

\* the bid side held a level (its capacity has grown) and holds none after
\* a message that was applied, while the ask side holds one
C33_Witness ==
    /\ result = "ok"
    /\ max_levels_bid > InitLevels
    /\ n_levels_bid = 0
    /\ n_levels_ask > 0

\* C34: in every reachable state each side has 0 <= n_levels <= max_levels
\* and an array of exactly max_levels rows; max_levels of a side never
\* decreases, and it changes only in an update that leaves the side with at
\* least as many levels as the capacity was.
C34_Capacity ==
    /\ [](/\ 0 <= n_levels_bid /\ n_levels_bid <= max_levels_bid
          /\ 0 <= n_levels_ask /\ n_levels_ask <= max_levels_ask
          /\ Len(bids) = max_levels_bid
          /\ Len(asks) = max_levels_ask)
    /\ [][/\ max_levels_bid' >= max_levels_bid
          /\ max_levels_ask' >= max_levels_ask
          /\ (max_levels_bid' # max_levels_bid) => (applied' /\ n_levels_bid' >= max_levels_bid)
          /\ (max_levels_ask' # max_levels_ask) => (applied' /\ n_levels_ask' >= max_levels_ask)]_vars

\* the ask side has grown twice and holds one level in an array of four rows
C34_Witness ==
    /\ max_levels_ask = 4
    /\ Len(asks) = 4
    /\ n_levels_ask = 1
    /\ asks[2] # ZeroRow

(***************************************************************************)
(* Claims on the handlers of the tables (SpecSink)                         *)
(***************************************************************************)
\* the calls the table makes for one event when none of them raises
event_expected(table, e, event) ==
    IF table = "level2" THEN <<[op |-> "ingest", event |-> e, item |-> 0]>>
    ELSE IF table = "ticker" \/ event.type = "update"
         THEN [i \in DOMAIN event.items |-> [op |-> "insert", event |-> e, item |-> i]]
    ELSE IF event.type = "snapshot" THEN <<[op |-> "ingest", event |-> e, item |-> 0]>>
    ELSE <<>>

RECURSIVE expected_from(_, _, _)
expected_from(table, events, e) ==
    IF e > Len(events) THEN <<>>
    ELSE event_expected(table, e, events[e]) \o expected_from(table, events, e + 1)

\* the calls without their outcome
made(calls) ==
    [i \in DOMAIN calls |-> [op |-> calls[i].op, event |-> calls[i].event, item |-> calls[i].item]]

is_prefix(s, t) == Len(s) <= Len(t) /\ s = SubSeq(t, 1, Len(s))

\* C35: candles and market_trades make one ingest call for an event of type
\* 'snapshot', one insert call per sub-item in item order for an event of
\* type 'update' and no call for an event of another type; level2 makes one
\* ingest call for every event and ticker one insert call per item of every
\* event, whatever the type.  A handler that returns has made exactly these
\* calls in order, a handler that raised has made the first of them.
C35_BranchOnType ==
    (call.fn = "handler" /\ call.returned) =>
        LET expected == expected_from(call.arg.table, call.arg.data.events, 1)
        IN  /\ is_prefix(made(call.out.calls), expected)
            /\ call.out.exc = "none" => made(call.out.calls) = expected

\* the candles handler returned from a message with an update event of two
\* sub-items followed by a snapshot event: three calls
C35_Witness ==
    /\ call.fn = "handler" /\ call.returned
    /\ call.arg.table = "candles"
    /\ call.out.exc = "none"
    /\ Len(call.arg.data.events) = 2
    /\ call.arg.data.events[1].type = "update"
    /\ call.arg.data.events[2].type = "snapshot"
    /\ Len(call.out.calls) = 3

C37_AdvancedOnlyByApplied ==
    [][(last_sequence_num' # last_sequence_num) =>
          (applied' /\ msg_seq' = IntSeq(last_sequence_num'))]_vars

\* the message is a depth message the sequence gate of the book drops
below_last(data) ==
    /\ data.channel = "l2_data"
    /\ data.sequence_num.tag = "int"
    /\ data.sequence_num.val < last_sequence_num

\* C38: the OrderBook the depth connector was constructed with stays its
\* book over all its connections: only the handling of a message changes it,
\* a connection taken or lost does not, last_sequence_num never decreases,
\* and a message with a sequence number below last_sequence_num is dropped
\* and leaves the book as it is, on whichever connection it arrives.
C38_BookKeptAcrossReconnects ==
    [][/\ last_sequence_num' >= last_sequence_num
       /\ (self_book' # self_book) => (taken' = taken + 1)
       /\ (taken' = taken + 1 /\ below_last(arrived[taken'])) =>
              (result' = "dropped" /\ self_book' = self_book)]_vars

\* the connector has taken its second connection and has not consumed on
\* it yet: the book holds the level and the sequence number of the first
\* connection, and a message with a lower sequence number has arrived
C38_Witness ==
    /\ Len(wire) = 2
    /\ tasks[ConnTask].pc = "subscribing"
    /\ last_sequence_num = 1
    /\ n_levels_bid = 1
    /\ taken = 1
    /\ Len(arrived) = 2
    /\ arrived[2].sequence_num = IntSeq(0)

\* the prices of the occupied prefix of a side
held(arr, n) == {arr[i][1] : i \in 1..n}

\* the message has an update entry for the side and the price whose quantity
\* is not greater than 0
deletes(data, side, price) ==
    \E i \in DOMAIN entries(data) :
        LET u == entries(data)[i]
        IN  /\ (u.side = "bid") <=> (side = "bid")
            /\ IsNumeric(u.price_level) /\ Float64(u.price_level) = price
            /\ IsNumeric(u.new_quantity) /\ ~(Float64(u.new_quantity) > 0)

\* the step handles a message that is applied and deletes the price
left_by_delta(side, price) ==
    /\ taken' = taken + 1
    /\ applied'
    /\ deletes(arrived[taken'], side, price)

\* C39: a price leaves a side only in the handling of a message that is
\* applied and holds a delta of non-positive quantity for that side and
\* price; a message of type 'snapshot' without the price, a dropped message,
\* a connection taken or lost do not remove it.
C39_LevelsLeaveByDelta ==
    [][/\ \A price \in held(bids, n_levels_bid) \ held(bids', n_levels_bid') :
             left_by_delta("bid", price)
       /\ \A price \in held(asks, n_levels_ask) \ held(asks', n_levels_ask') :
             left_by_delta("offer", price)]_vars

\* the message handled last is a snapshot that holds the bid price 2 only
\* and was applied: the bid side holds two levels, the price 1 still there
C39_Witness ==
    /\ taken >= 2
    /\ arrived[taken].channel = "l2_data"
    /\ arrived[taken].events[1].type = "snapshot"
    /\ msg_seq = arrived[taken].sequence_num
    /\ result = "ok"
    /\ n_levels_bid = 2
    /\ held(bids, n_levels_bid) = {1, 2}

\* the exceptions of validation and of ingestion, those _consume_messages
\* catches to drop the message
Rejections == {"Invalid", "SchemaError", "IngressError"}

\* C40: a table handler hands the events and items of a message to the
\* sender one by one in order; when the piece k fails validation or
\* ingestion, every piece before k has been handed over, the piece k has
\* not, and no call is made for a piece after k.
C40_PartialIngestion ==
    (call.fn = "handler" /\ call.returned) =>
        LET calls == call.out.calls
            n == Len(calls)
            expected == expected_from(call.arg.table, call.arg.data.events, 1)
        IN  /\ \A i \in 1..(n - 1) : calls[i].handed
            /\ call.out.exc \in Rejections =>
                  /\ n >= 1
                  /\ ~calls[n].handed
                  /\ made(calls) = SubSeq(expected, 1, n)
            /\ call.out.exc \notin Rejections => \A i \in 1..n : calls[i].handed

\* the ticker handler raised on the second item of the first of two events:
\* the first item has been handed over, nothing of the second event
C40_Witness ==
    /\ call.fn = "handler" /\ call.returned
    /\ call.arg.table = "ticker"
    /\ Len(call.arg.data.events) = 2
    /\ call.arg.data.events[1].items = <<"good", "invalid">>
    /\ call.arg.data.events[2].items = <<"good", "good">>
    /\ call.out.exc = "Invalid"
    /\ Len(call.out.calls) = 2
    /\ call.out.calls[1].handed

====
